---- MODULE Spec2Model ----
(***************************************************************************)
(* gdwg::graph<N, E> (src/src/gdwg_graph.h): a directed weighted graph     *)
(* whose nodes are shared_ptr<N> kept in a std::set ordered by value and   *)
(* whose edges are tuples (shared_ptr<N>, shared_ptr<N>, shared_ptr<edge>) *)
(* kept in a std::set ordered by compare_edges_set.                        *)
(*                                                                         *)
(* A shared_ptr<N> is modelled as a record [id, val]: val is the N held by *)
(* the pointee (never assigned after make_shared) and id tells apart two   *)
(* live objects holding equal values.  A std::set is modelled as the       *)
(* sequence of its elements in iteration order; insertion and lookup go    *)
(* through the comparator exactly as the container does.  A std::optional  *)
(* is a sequence of length at most one.                                    *)
(***************************************************************************)
EXTENDS Integers, Sequences, FiniteSets, TLC

VARIABLES nodes_, edges_, snap, call

vars == <<nodes_, edges_, snap, call>>

\* The graph objects of a run: the operand and a second graph for copy/move.
Graphs == {1, 2}

\* Node values (N = int) and edge weights (std::optional<E>, E = int).
Values == {1, 2, 3}
Weights == {<<>>, <<0>>, <<1>>}

\* Domains of the two-graph specification.
CopyValues == {1, 2}
CopyWeights == {<<>>, <<0>>}

\* Cap on the number of edges stored in one graph (single-graph runs).
MaxEdges == 3
\* Cap on the number of edges stored in one graph (two-graph runs).
MaxCopyEdges == 2
\* Cap on the number of edges stored in the graph (runs with a kept value).
MaxSnapEdges == 2

nullptr == [id |-> 0, val |-> 0]

Range(s) == {s[i] : i \in 1..Len(s)}

----------------------------------------------------------------------------
(* compare_shared_ptr: the three overloads compare the pointees by value.  *)

compare_shared_ptr(lhs, rhs) == lhs.val < rhs.val

compare_shared_ptr_N(lhs, rhs) == lhs.val < rhs

compare_N_shared_ptr(lhs, rhs) == lhs < rhs.val

(* edge *)

\* Mutant: a weight of 0 is taken for no weight.
is_weighted_zero_is_none(e) == e.weight_ # <<>> /\ e.weight_[1] # 0

is_weighted(e) == e.weight_ # <<>>

get_weight(e) == e.weight_

get_nodes(e) == <<e.src_, e.dst_>>

\* Mutant: only the source is assigned.
set_nodes_src_only(e, src, dst) == [e EXCEPT !.src_ = src]

\* Mutant: only the destination is written.
set_nodes_dst_only(e, src, dst) == [e EXCEPT !.dst_ = dst]

set_nodes(e, src, dst) == [e EXCEPT !.src_ = src, !.dst_ = dst]

edge_eq(e, other) ==
    get_nodes(e) = get_nodes(other) /\ get_weight(e) = get_weight(other)

\* Mutant: the unweighted edge is ordered after the weighted ones.
edge_comp_unweighted_last(e, other) ==
    IF ~is_weighted(e) /\ ~is_weighted(other) THEN "equal"
    ELSE IF ~is_weighted(e) THEN "greater"
    ELSE IF ~is_weighted(other) THEN "less"
    ELSE IF e.weight_[1] < other.weight_[1] THEN "less"
    ELSE IF e.weight_[1] = other.weight_[1] THEN "equal"
    ELSE "greater"

edge_comp(e, other) ==
    IF ~is_weighted(e) /\ ~is_weighted(other) THEN "equal"
    ELSE IF ~is_weighted(e) THEN "less"
    ELSE IF ~is_weighted(other) THEN "greater"
    ELSE IF e.weight_[1] < other.weight_[1] THEN "less"
    ELSE IF e.weight_[1] = other.weight_[1] THEN "equal"
    ELSE "greater"

\* weighted_edge / unweighted_edge constructors.  An edge object is written
\* in place by set_nodes, so a second holder of the same object would see
\* the change: id names the object where it has more than one holder and is
\* 0 for an object with a single holder, as a new one is.
new_edge_object(src, dst, weight) ==
    [src_ |-> src, dst_ |-> dst, weight_ |-> weight, id |-> 0]

edge_tuple(src_ptr, dst_ptr, edge_ptr) ==
    [src |-> src_ptr, dst |-> dst_ptr, edge |-> edge_ptr]

compare_edges_set(lhs, rhs) ==
    IF lhs.src # rhs.src THEN compare_shared_ptr(lhs.src, rhs.src)
    ELSE IF lhs.dst # rhs.dst THEN compare_shared_ptr(lhs.dst, rhs.dst)
    ELSE edge_comp(lhs.edge, rhs.edge) = "less"

----------------------------------------------------------------------------
(* std::set primitives.  A position is an index 1..Len(s); Len(s)+1 is     *)
(* end().                                                                  *)

InsertAt(s, i, x) == SubSeq(s, 1, i - 1) \o <<x>> \o SubSeq(s, i, Len(s))

RemoveAt(s, i) == SubSeq(s, 1, i - 1) \o SubSeq(s, i + 1, Len(s))

\* type_nodes_set: lower_bound / find / contains / insert / erase(key)
nodes_lower_bound(s, value) ==
    IF \E i \in 1..Len(s) : ~compare_shared_ptr_N(s[i], value)
    THEN CHOOSE i \in 1..Len(s) :
            /\ ~compare_shared_ptr_N(s[i], value)
            /\ \A j \in 1..(i - 1) : compare_shared_ptr_N(s[j], value)
    ELSE Len(s) + 1

nodes_find(s, value) ==
    LET i == nodes_lower_bound(s, value)
    IN IF i <= Len(s) /\ ~compare_N_shared_ptr(value, s[i]) THEN i ELSE Len(s) + 1

nodes_contains(s, value) == nodes_find(s, value) <= Len(s)

\* Mutant: the set keeps its elements in the order they were inserted.
nodes_insert_back(s, ptr) ==
    IF \E i \in 1..Len(s) : s[i].val = ptr.val THEN s ELSE Append(s, ptr)

nodes_insert(s, ptr) ==
    LET i == nodes_lower_bound(s, ptr.val)
    IN IF i <= Len(s) /\ ~compare_shared_ptr(ptr, s[i]) THEN s ELSE InsertAt(s, i, ptr)

nodes_erase(s, ptr) ==
    LET i == nodes_find(s, ptr.val)
    IN IF i <= Len(s) THEN RemoveAt(s, i) ELSE s

\* edges_set: lower_bound / contains / insert
edges_lower_bound(s, x) ==
    IF \E i \in 1..Len(s) : ~compare_edges_set(s[i], x)
    THEN CHOOSE i \in 1..Len(s) :
            /\ ~compare_edges_set(s[i], x)
            /\ \A j \in 1..(i - 1) : compare_edges_set(s[j], x)
    ELSE Len(s) + 1

edges_contains(s, x) ==
    LET i == edges_lower_bound(s, x)
    IN i <= Len(s) /\ ~compare_edges_set(x, s[i])

edges_insert(s, x) ==
    LET i == edges_lower_bound(s, x)
    IN IF i <= Len(s) /\ ~compare_edges_set(x, s[i]) THEN s ELSE InsertAt(s, i, x)

\* edges_.insert(first, last)
RECURSIVE edges_insert_range(_, _)
edges_insert_range(s, xs) ==
    IF xs = <<>> THEN s
    ELSE edges_insert_range(edges_insert(s, Head(xs)), Tail(xs))

----------------------------------------------------------------------------
(* Allocation: make_shared<N>(value) returns an object distinct from every *)
(* live one.                                                               *)

LivePtrs(ns, es) ==
    UNION {Range(ns[g]) : g \in Graphs}
    \cup UNION {{es[g][i].src : i \in 1..Len(es[g])} : g \in Graphs}
    \cup UNION {{es[g][i].dst : i \in 1..Len(es[g])} : g \in Graphs}

make_shared(value, live) ==
    LET k == CHOOSE i \in 1..(Cardinality(live) + 1) :
                 /\ [id |-> i, val |-> value] \notin live
                 /\ \A j \in 1..(i - 1) : [id |-> j, val |-> value] \in live
    IN [id |-> k, val |-> value]

----------------------------------------------------------------------------
(* graph<N, E>: every method is an operator from the graph's two sets (and *)
(* the live objects, where it allocates) to the sets after the call and    *)
(* the value returned; ret = "throw" stands for std::runtime_error.        *)

Result(ns, es, ret) == [nodes |-> ns, edges |-> es, ret |-> ret]

Bool(b) == IF b THEN "true" ELSE "false"

find_node_ptr(ns, value) ==
    LET it == nodes_find(ns, value)
    IN IF it # Len(ns) + 1 THEN ns[it] ELSE nullptr

is_node(ns, value) == nodes_contains(ns, value)

\* Mutant: no test for the value being a node already.
insert_node_unchecked(ns, es, value, live) ==
    LET new_node == make_shared(value, live)
    IN Result(nodes_insert(ns, new_node), es, "true")

insert_node(ns, es, value, live) ==
    IF nodes_contains(ns, value) THEN Result(ns, es, "false")
    ELSE LET new_node == make_shared(value, live)
         IN Result(nodes_insert(ns, new_node), es, "true")

\* Mutant: only the source is tested for being a node.
insert_edge_src_only(ns, es, src, dst, weight) ==
    LET src_ptr == find_node_ptr(ns, src)
        dst_ptr == find_node_ptr(ns, dst)
    IN IF src_ptr = nullptr THEN Result(ns, es, "throw")
       ELSE LET edge_ptr == new_edge_object(src, dst, weight)
                new_edge == edge_tuple(src_ptr, dst_ptr, edge_ptr)
            IN IF edges_contains(es, new_edge) THEN Result(ns, es, "false")
               ELSE Result(ns, edges_insert(es, new_edge), "true")

insert_edge(ns, es, src, dst, weight) ==
    LET src_ptr == find_node_ptr(ns, src)
        dst_ptr == find_node_ptr(ns, dst)
    IN IF src_ptr = nullptr \/ dst_ptr = nullptr THEN Result(ns, es, "throw")
       ELSE LET edge_ptr == new_edge_object(src, dst, weight)
                new_edge == edge_tuple(src_ptr, dst_ptr, edge_ptr)
            IN IF edges_contains(es, new_edge) THEN Result(ns, es, "false")
               ELSE Result(ns, edges_insert(es, new_edge), "true")

\* The loop of update_node over edges_[i..]: kept holds the tuples left in
\* edges_, updated_edges the local set of rewritten tuples.  set_nodes acts
\* on the edge object the rewritten tuple shares, and the comparator never
\* reads the object's src_/dst_, so rewriting it before the insertion gives
\* the same sets as rewriting it after.
RECURSIVE update_node_loop(_, _, _, _, _, _)
update_node_loop(es, i, src_ptr, dst_ptr, kept, updated_edges) ==
    IF i > Len(es) THEN [kept |-> kept, updated_edges |-> updated_edges]
    ELSE LET src == es[i].src
             dest == es[i].dst
             edge == es[i].edge
         IN IF src = src_ptr \/ dest = src_ptr
            THEN LET nsrc == IF src = src_ptr THEN dst_ptr ELSE src
                     ndst == IF dest = src_ptr THEN dst_ptr ELSE dest
                     new_edge == edge_tuple(nsrc, ndst, set_nodes(edge, nsrc.val, ndst.val))
                 IN update_node_loop(es, i + 1, src_ptr, dst_ptr, kept,
                                     edges_insert(updated_edges, new_edge))
            ELSE update_node_loop(es, i + 1, src_ptr, dst_ptr,
                                  Append(kept, es[i]), updated_edges)

\* Mutant: the rewritten tuples are put back without the set's test for an
\* equal one.
update_node_no_dedup(es, src_ptr, dst_ptr) ==
    LET r == update_node_loop(es, 1, src_ptr, dst_ptr, <<>>, <<>>)
    IN r.kept \o r.updated_edges

update_node(es, src_ptr, dst_ptr) ==
    LET r == update_node_loop(es, 1, src_ptr, dst_ptr, <<>>, <<>>)
    IN edges_insert_range(r.kept, r.updated_edges)

\* Mutant: old_data = new_data is tested before is_node(new_data).
replace_node_same_first(ns, es, old_data, new_data, live) ==
    LET src_ptr == find_node_ptr(ns, old_data)
    IN IF src_ptr = nullptr THEN Result(ns, es, "throw")
       ELSE IF old_data = new_data THEN Result(ns, es, "true")
       ELSE IF is_node(ns, new_data) THEN Result(ns, es, "false")
       ELSE LET new_node == make_shared(new_data, live)
            IN Result(nodes_insert(nodes_erase(ns, src_ptr), new_node),
                      update_node(es, src_ptr, new_node), "true")

\* Mutant: the old node is erased before is_node(new_data) is tested.
replace_node_erase_first(ns, es, old_data, new_data, live) ==
    LET src_ptr == find_node_ptr(ns, old_data)
    IN IF src_ptr = nullptr THEN Result(ns, es, "throw")
       ELSE LET erased == nodes_erase(ns, src_ptr)
            IN IF is_node(erased, new_data) THEN Result(erased, es, "false")
               ELSE IF old_data # new_data
                    THEN LET new_node == make_shared(new_data, live)
                         IN Result(nodes_insert(erased, new_node),
                                   update_node(es, src_ptr, new_node), "true")
                    ELSE Result(erased, es, "true")

\* Mutant: is_node(new_data) is tested before old_data is looked up.
replace_node_new_first(ns, es, old_data, new_data, live) ==
    LET src_ptr == find_node_ptr(ns, old_data)
    IN IF is_node(ns, new_data) THEN Result(ns, es, "false")
       ELSE IF src_ptr = nullptr THEN Result(ns, es, "throw")
       ELSE IF old_data # new_data
            THEN LET new_node == make_shared(new_data, live)
                 IN Result(nodes_insert(nodes_erase(ns, src_ptr), new_node),
                           update_node(es, src_ptr, new_node), "true")
            ELSE Result(ns, es, "true")

\* Mutant: no test for new_data being a node already.
replace_node_no_new_test(ns, es, old_data, new_data, live) ==
    LET src_ptr == find_node_ptr(ns, old_data)
    IN IF src_ptr = nullptr THEN Result(ns, es, "throw")
       ELSE IF old_data # new_data
            THEN LET new_node == make_shared(new_data, live)
                 IN Result(nodes_insert(nodes_erase(ns, src_ptr), new_node),
                           update_node(es, src_ptr, new_node), "true")
            ELSE Result(ns, es, "true")

replace_node(ns, es, old_data, new_data, live) ==
    LET src_ptr == find_node_ptr(ns, old_data)
    IN IF src_ptr = nullptr THEN Result(ns, es, "throw")
       ELSE IF is_node(ns, new_data) THEN Result(ns, es, "false")
       ELSE IF old_data # new_data
            THEN LET new_node == make_shared(new_data, live)
                 IN Result(nodes_insert(nodes_erase(ns, src_ptr), new_node),
                           update_node(es, src_ptr, new_node), "true")
            ELSE Result(ns, es, "true")

\* Mutant: the edges of the old node are erased, not redirected.
merge_replace_node_drop_edges(ns, es, old_data, new_data) ==
    LET src_ptr == find_node_ptr(ns, old_data)
        new_ptr == find_node_ptr(ns, new_data)
    IN IF src_ptr = nullptr \/ new_ptr = nullptr THEN Result(ns, es, "throw")
       ELSE IF old_data # new_data
            THEN Result(nodes_erase(ns, src_ptr),
                        SelectSeq(es, LAMBDA e : e.src # src_ptr /\ e.dst # src_ptr), "void")
            ELSE Result(ns, es, "void")

\* Mutant: only old_data is tested for being a node.
merge_replace_node_old_only(ns, es, old_data, new_data) ==
    LET src_ptr == find_node_ptr(ns, old_data)
        new_ptr == find_node_ptr(ns, new_data)
    IN IF src_ptr = nullptr THEN Result(ns, es, "throw")
       ELSE IF old_data # new_data
            THEN Result(nodes_erase(ns, src_ptr), update_node(es, src_ptr, new_ptr), "void")
            ELSE Result(ns, es, "void")

\* Mutant: no test for old_data and new_data being different.
merge_replace_node_no_same_test(ns, es, old_data, new_data) ==
    LET src_ptr == find_node_ptr(ns, old_data)
        new_ptr == find_node_ptr(ns, new_data)
    IN IF src_ptr = nullptr \/ new_ptr = nullptr THEN Result(ns, es, "throw")
       ELSE Result(nodes_erase(ns, src_ptr), update_node(es, src_ptr, new_ptr), "void")

merge_replace_node(ns, es, old_data, new_data) ==
    LET src_ptr == find_node_ptr(ns, old_data)
        new_ptr == find_node_ptr(ns, new_data)
    IN IF src_ptr = nullptr \/ new_ptr = nullptr THEN Result(ns, es, "throw")
       ELSE IF old_data # new_data
            THEN Result(nodes_erase(ns, src_ptr), update_node(es, src_ptr, new_ptr), "void")
            ELSE Result(ns, es, "void")

\* Mutant: only the edges leaving the node are erased.
erase_node_outgoing_only(ns, es, value) ==
    LET node_ptr == find_node_ptr(ns, value)
    IN IF node_ptr = nullptr THEN Result(ns, es, "false")
       ELSE Result(nodes_erase(ns, node_ptr),
                   SelectSeq(es, LAMBDA e : ~(e.src.val = node_ptr.val)),
                   "true")

\* Mutant: an edge is erased when exactly one of its ends is the node.
erase_node_keep_self_loops(ns, es, value) ==
    LET node_ptr == find_node_ptr(ns, value)
    IN IF node_ptr = nullptr THEN Result(ns, es, "false")
       ELSE Result(nodes_erase(ns, node_ptr),
                   SelectSeq(es, LAMBDA e : ~((e.src.val = node_ptr.val) # (e.dst.val = node_ptr.val))),
                   "true")

erase_node(ns, es, value) ==
    LET node_ptr == find_node_ptr(ns, value)
    IN IF node_ptr = nullptr THEN Result(ns, es, "false")
       ELSE Result(nodes_erase(ns, node_ptr),
                   SelectSeq(es, LAMBDA e : ~(e.src.val = node_ptr.val \/ e.dst.val = node_ptr.val)),
                   "true")

\* Mutant: the weight is not compared.
erase_edge_find_if_any_weight(es, src, dst, weight) ==
    LET Match(e) == e.src.val = src /\ e.dst.val = dst
    IN IF \E i \in 1..Len(es) : Match(es[i])
       THEN CHOOSE i \in 1..Len(es) : Match(es[i]) /\ \A j \in 1..(i - 1) : ~Match(es[j])
       ELSE Len(es) + 1

\* std::ranges::find_if over edges_: the first matching position, or end().
erase_edge_find_if(es, src, dst, weight) ==
    LET Match(e) == e.src.val = src /\ e.dst.val = dst /\ get_weight(e.edge) = weight
    IN IF \E i \in 1..Len(es) : Match(es[i])
       THEN CHOOSE i \in 1..Len(es) : Match(es[i]) /\ \A j \in 1..(i - 1) : ~Match(es[j])
       ELSE Len(es) + 1

\* Mutant: the endpoints are not tested for being nodes.
erase_edge_no_node_test(ns, es, src, dst, weight) ==
    LET edge_ptr == erase_edge_find_if(es, src, dst, weight)
    IN IF edge_ptr = Len(es) + 1 THEN Result(ns, es, "false")
       ELSE Result(ns, RemoveAt(es, edge_ptr), "true")

erase_edge(ns, es, src, dst, weight) ==
    IF ~is_node(ns, src) \/ ~is_node(ns, dst) THEN Result(ns, es, "throw")
    ELSE LET edge_ptr == erase_edge_find_if(es, src, dst, weight)
         IN IF edge_ptr = Len(es) + 1 THEN Result(ns, es, "false")
            ELSE Result(ns, RemoveAt(es, edge_ptr), "true")

\* Mutant: the iterator returned is the argument advanced by one.
erase_edge_it_advanced(ns, es, i) ==
    [nodes |-> ns, edges |-> RemoveAt(es, i), ret |-> "iterator", it |-> i + 1]

\* erase_edge(iterator): i is a dereferenceable position; the position
\* returned by edges_.erase is that of the element that followed.
erase_edge_it(ns, es, i) ==
    [nodes |-> ns, edges |-> RemoveAt(es, i), ret |-> "iterator", it |-> i]

\* Mutant: the element at s is erased too.
erase_edge_range_closed(ns, es, i, s) ==
    [nodes |-> ns, edges |-> SubSeq(es, 1, i - 1) \o SubSeq(es, s + 1, Len(es)),
     ret |-> "iterator", it |-> i]

\* erase_edge(iterator, iterator): [i, s) is a valid range of edges_.
erase_edge_range(ns, es, i, s) ==
    [nodes |-> ns, edges |-> SubSeq(es, 1, i - 1) \o SubSeq(es, s, Len(es)),
     ret |-> "iterator", it |-> i]

\* Mutant: edges_ is not cleared.
clear_nodes_only(ns, es) == Result(<<>>, es, "void")

clear(ns, es) == Result(<<>>, <<>>, "void")

(* Accessors: the sets are left as they are. *)

empty(ns) == ns = <<>>

\* Mutant: an edge in either direction connects.
is_connected_undirected(ns, es, src, dst) ==
    IF ~is_node(ns, src) \/ ~is_node(ns, dst) THEN Result(ns, es, "throw")
    ELSE Result(ns, es, Bool(\E i \in 1..Len(es) :
                                \/ es[i].src.val = src /\ es[i].dst.val = dst
                                \/ es[i].src.val = dst /\ es[i].dst.val = src))

is_connected(ns, es, src, dst) ==
    IF ~is_node(ns, src) \/ ~is_node(ns, dst) THEN Result(ns, es, "throw")
    ELSE Result(ns, es, Bool(\E i \in 1..Len(es) : es[i].src.val = src /\ es[i].dst.val = dst))

\* Mutant: the values in reverse iteration order.
nodes_reversed(ns) == [i \in 1..Len(ns) |-> ns[Len(ns) + 1 - i].val]

\* nodes(): the values in iteration order of nodes_.
nodes(ns) == [i \in 1..Len(ns) |-> ns[i].val]

\* begin() and end() as positions of edges_.
begin(es) == 1

end(es) == Len(es) + 1

\* Mutant: the object itself is handed out, not a copy.
clone_ptr_shared(e) == e

\* weighted_edge / unweighted_edge :: clone_ptr: a new object constructed
\* from *this.
clone_ptr(e) == new_edge_object(e.src_, e.dst_, e.weight_)

\* weighted_edge / unweighted_edge :: print_edge
print_edge(e) ==
    IF is_weighted(e)
    THEN ToString(e.src_) \o " -> " \o ToString(e.dst_) \o " | W | " \o ToString(e.weight_[1])
    ELSE ToString(e.src_) \o " -> " \o ToString(e.dst_) \o " | U"

\* What an accessor hands back: the sets as they were, how it ended, and
\* the value returned.
Value(ns, es, ret, val) == [nodes |-> ns, edges |-> es, ret |-> ret, val |-> val]

\* Mutant: the edges of the pair in either direction.
edges_undirected(ns, es, src, dst) ==
    IF ~is_node(ns, src) \/ ~is_node(ns, dst) THEN Value(ns, es, "throw", <<>>)
    ELSE LET sel == SelectSeq(es, LAMBDA e : \/ e.src.val = src /\ e.dst.val = dst
                                             \/ e.src.val = dst /\ e.dst.val = src)
         IN Value(ns, es, "vector", [i \in 1..Len(sel) |-> clone_ptr(sel[i].edge)])

\* edges(src, dst): a clone of the edge of every tuple keyed by src and
\* dst, in iteration order of edges_.
edges(ns, es, src, dst) ==
    IF ~is_node(ns, src) \/ ~is_node(ns, dst) THEN Value(ns, es, "throw", <<>>)
    ELSE LET sel == SelectSeq(es, LAMBDA e : e.src.val = src /\ e.dst.val = dst)
         IN Value(ns, es, "vector", [i \in 1..Len(sel) |-> clone_ptr(sel[i].edge)])

\* iter::operator*: the value_type {from, to, weight} read from the edge.
iter_deref(es, i) ==
    LET edge == es[i].edge
        pair == get_nodes(edge)
    IN [from |-> pair[1], to |-> pair[2], weight |-> get_weight(edge)]

\* iter::set_it_ of an iterator at position i of the edge set es of graph
\* g: the element the std::set iterator points at, or the end of that
\* set.  Two std::set iterators are equal when they point at the same
\* element or at the end of the same set.
set_it_(g, es, i) ==
    IF i \in 1..Len(es) THEN [end |-> 0, elem |-> <<es[i]>>]
    ELSE [end |-> g, elem |-> <<>>]

\* iter::operator==
iter_operator_eq(lhs, rhs) == lhs = rhs

\* ++it / it++ / --it / it--: it is the position of the iterator after
\* the step and ret the position of the iterator returned.
operator_pre_inc(i) == [it |-> i + 1, ret |-> i + 1]

\* Mutant: it++ returns the iterator as it is after the step.
operator_post_inc_returns_new(i) == [it |-> i + 1, ret |-> i + 1]

operator_post_inc(i) == [it |-> i + 1, ret |-> i]

operator_pre_dec(i) == [it |-> i - 1, ret |-> i - 1]

operator_post_dec(i) == [it |-> i - 1, ret |-> i]

\* Mutant: the weight is not compared.
find_any_weight(es, src, dst, weight) ==
    LET hit(i) == LET edge == iter_deref(es, i)
                  IN edge.from = src /\ edge.to = dst
    IN IF \E i \in 1..Len(es) : hit(i)
       THEN CHOOSE i \in 1..Len(es) : hit(i) /\ \A j \in 1..(i - 1) : ~hit(j)
       ELSE end(es)

\* find(src, dst, weight): std::ranges::find_if over begin()..end().
find(es, src, dst, weight) ==
    LET hit(i) == LET edge == iter_deref(es, i)
                  IN edge.from = src /\ edge.to = dst /\ edge.weight = weight
    IN IF \E i \in 1..Len(es) : hit(i)
       THEN CHOOSE i \in 1..Len(es) : hit(i) /\ \A j \in 1..(i - 1) : ~hit(j)
       ELSE end(es)

\* std::unique followed by erase: of every run of equal consecutive
\* elements the first is kept.
std_unique(vec) ==
    LET keep == {i \in 1..Len(vec) : i = 1 \/ vec[i] # vec[i - 1]}
        nth(k) == CHOOSE i \in keep : Cardinality({j \in keep : j < i}) = k - 1
    IN [k \in 1..Cardinality(keep) |-> vec[nth(k)]]

\* Mutant: the duplicates are left in.
connections_no_unique(ns, es, src) ==
    IF ~is_node(ns, src) THEN Value(ns, es, "throw", <<>>)
    ELSE LET sel == SelectSeq(es, LAMBDA e : e.src.val = src)
         IN Value(ns, es, "vector", [i \in 1..Len(sel) |-> sel[i].dst.val])

\* connections(src)
connections(ns, es, src) ==
    IF ~is_node(ns, src) THEN Value(ns, es, "throw", <<>>)
    ELSE LET sel == SelectSeq(es, LAMBDA e : e.src.val = src)
             vec == [i \in 1..Len(sel) |-> sel[i].dst.val]
         IN Value(ns, es, "vector", std_unique(vec))

\* Mutant: only the sizes and the nodes are compared.
operator_eq_nodes_only(ns, es, other_ns, other_es) ==
    IF Len(ns) # Len(other_ns) \/ Len(es) # Len(other_es) THEN FALSE
    ELSE \A i \in 1..Len(ns) : ns[i].val = other_ns[i].val

\* graph::operator==
operator_eq(ns, es, other_ns, other_es) ==
    IF Len(ns) # Len(other_ns) \/ Len(es) # Len(other_es) THEN FALSE
    ELSE IF ~(\A i \in 1..Len(ns) : ns[i].val = other_ns[i].val) THEN FALSE
    ELSE IF ~(\A i \in 1..Len(es) : edge_eq(es[i].edge, other_es[i].edge)) THEN FALSE
    ELSE TRUE

\* operator<<: the inner loop over edges_ for one node.
RECURSIVE print_edges_of(_, _, _)
print_edges_of(es, i, node) ==
    IF i > Len(es) THEN ""
    ELSE (IF es[i].src.val = node.val
          THEN "  " \o print_edge(es[i].edge) \o "\n"
          ELSE "")
         \o print_edges_of(es, i + 1, node)

\* operator<<: the outer loop over nodes_.
RECURSIVE print_nodes(_, _, _)
print_nodes(ns, es, i) ==
    IF i > Len(ns) THEN ""
    ELSE ToString(ns[i].val) \o " (\n" \o print_edges_of(es, 1, ns[i]) \o ")\n"
         \o print_nodes(ns, es, i + 1)

\* Mutant: every edge is listed under every node.
operator_out_all_edges(ns, es) ==
    LET RECURSIVE all(_)
        all(i) == IF i > Len(es) THEN ""
                  ELSE "  " \o print_edge(es[i].edge) \o "\n" \o all(i + 1)
        RECURSIVE blocks(_)
        blocks(i) == IF i > Len(ns) THEN ""
                     ELSE ToString(ns[i].val) \o " (\n" \o all(1) \o ")\n" \o blocks(i + 1)
    IN "\n" \o blocks(1)

\* operator<<(os, g): the text written to os.
operator_out(ns, es) == "\n" \o print_nodes(ns, es, 1)

\* deep_copy(other): clear(), a fresh node object per node of other, then
\* insert_edge per edge of other, in other's iteration order.
RECURSIVE deep_copy_nodes(_, _, _)
deep_copy_nodes(ns, other_ns, live) ==
    IF other_ns = <<>> THEN ns
    ELSE LET n == make_shared(Head(other_ns).val, live)
         IN deep_copy_nodes(nodes_insert(ns, n), Tail(other_ns), live \cup {n})

RECURSIVE deep_copy_edges(_, _, _)
deep_copy_edges(ns, es, other_es) ==
    IF other_es = <<>> THEN es
    ELSE LET e == Head(other_es)
         IN deep_copy_edges(ns,
                            insert_edge(ns, es, e.src.val, e.dst.val, get_weight(e.edge)).edges,
                            Tail(other_es))

\* Mutant: the tuples of the copy hold the edge objects of other.
deep_copy_shared_edges(other_ns, other_es, live) ==
    LET ns == deep_copy_nodes(clear(<<>>, <<>>).nodes, other_ns, live)
        RECURSIVE share(_, _)
        share(es, rest) ==
            IF rest = <<>> THEN es
            ELSE LET e == Head(rest)
                 IN share(edges_insert(es, edge_tuple(find_node_ptr(ns, e.src.val),
                                                      find_node_ptr(ns, e.dst.val), e.edge)),
                          Tail(rest))
    IN Result(ns, share(clear(<<>>, <<>>).edges, other_es), "void")

\* Mutant: the tuples of the copy hold the node objects of other.
deep_copy_other_endpoints(other_ns, other_es, live) ==
    LET ns == deep_copy_nodes(clear(<<>>, <<>>).nodes, other_ns, live)
        RECURSIVE refer(_, _)
        refer(es, rest) ==
            IF rest = <<>> THEN es
            ELSE LET e == Head(rest)
                     edge_ptr == new_edge_object(e.src.val, e.dst.val, get_weight(e.edge))
                 IN refer(edges_insert(es, edge_tuple(e.src, e.dst, edge_ptr)), Tail(rest))
    IN Result(ns, refer(clear(<<>>, <<>>).edges, other_es), "void")

\* Mutant: the edges are not copied.
deep_copy_no_edges(other_ns, other_es, live) ==
    Result(deep_copy_nodes(clear(<<>>, <<>>).nodes, other_ns, live), clear(<<>>, <<>>).edges, "void")

deep_copy(other_ns, other_es, live) ==
    LET ns == deep_copy_nodes(clear(<<>>, <<>>).nodes, other_ns, live)
    IN Result(ns, deep_copy_edges(ns, clear(<<>>, <<>>).edges, other_es), "void")

----------------------------------------------------------------------------
(* graph(InputIt first, InputIt last) and graph(initializer_list): the     *)
(* values of the sequence are in elems.                                    *)

\* Mutant: every element is stored, in the order of the sequence.
graph_range_push_back(elems, live) ==
    Result([i \in 1..Len(elems) |-> [id |-> i, val |-> elems[i]]], <<>>, "void")

\* std::transform into std::inserter(nodes_, nodes_.end()): an object is
\* allocated for every element and offered to the set, which drops it when
\* it holds the value already.
RECURSIVE graph_range_transform(_, _, _)
graph_range_transform(ns, elems, live) ==
    IF elems = <<>> THEN ns
    ELSE LET ptr == make_shared(Head(elems), live \cup Range(ns))
         IN graph_range_transform(nodes_insert(ns, ptr), Tail(elems), live)

graph_range(elems, live) ==
    Result(graph_range_transform(<<>>, elems, live), <<>>, "void")

\* graph(il) delegates to graph(il.begin(), il.end()).
graph_list(il, live) == graph_range(il, live)

----------------------------------------------------------------------------
(* The state machine.  The caller is single-threaded: it makes a call,     *)
(* which runs to completion, looks at what came back and makes the next    *)
(* one.  call holds the call that has just completed (the method, the      *)
(* graph it was called on, its arguments, what it returned) until the      *)
(* caller is done with it, and NoCall between calls.                       *)

Call(op, g, a, b, w, ret) ==
    [op |-> op, g |-> g, a |-> a, b |-> b, w |-> w, ret |-> ret, it |-> 0, val |-> <<>>]

NoCall == Call("none", 0, 0, 0, <<>>, "void")

\* What the caller has kept of the value an accessor returned: the accessor
\* and the value.  NoSnap: nothing kept.
Snap(op, val) == [op |-> op, val |-> val]

NoSnap == Snap("none", <<>>)

\* graph(): both sets empty.
Init ==
    /\ nodes_ = [g \in Graphs |-> <<>>]
    /\ edges_ = [g \in Graphs |-> <<>>]
    /\ snap = NoSnap
    /\ call = NoCall

\* The objects alive while a method of graph g runs.
Live == LivePtrs(nodes_, edges_)

\* The edge objects held by a vector returned by edges(); the values
\* returned by the other accessors hold none.
Objects(op, val) == IF op = "edges" THEN val ELSE <<>>

\* The edge objects of graph h as a method sees them: every object can be
\* told from every other (a single-holder object gets a number of its own).
Addressed(es, h) ==
    LET T == 1 + Len(edges_[1]) + Len(edges_[2]) + Len(Objects(snap.op, snap.val))
    IN [i \in 1..Len(es) |->
           IF es[i].edge.id = 0 THEN [es[i] EXCEPT !.edge.id = 0 - (h * T + i)] ELSE es[i]]

\* The ids of the edge objects of all holders: the graphs, the vector kept
\* by the caller, the vector just returned.
HeldIds(es, sv, cv) ==
    [i \in 1..Len(es[1]) |-> es[1][i].edge.id] \o [i \in 1..Len(es[2]) |-> es[2][i].edge.id]
    \o [i \in 1..Len(sv) |-> sv[i].id] \o [i \in 1..Len(cv) |-> cv[i].id]

\* The id an object is stored with: 0 unless it is held more than once,
\* else its rank among the shared objects in the order of HeldIds.
StoredId(ids, k) ==
    LET count(j) == Cardinality({i \in 1..Len(ids) : ids[i] = j})
        first(j) == CHOOSE i \in 1..Len(ids) : ids[i] = j /\ \A n \in 1..(i - 1) : ids[n] # j
        shared == {j \in Range(ids) \ {0} : count(j) >= 2}
    IN IF k \in shared THEN Cardinality({j \in shared : first(j) <= first(k)}) ELSE 0

\* What a holder other than g sees of an object after the call on g: the
\* object as g's method has left it, if g still holds the same object.
WrittenThrough(o, es_g) ==
    IF o.id # 0 /\ \E i \in 1..Len(es_g) : es_g[i].edge.id = o.id
    THEN (CHOOSE e \in Range(es_g) : e.edge.id = o.id).edge
    ELSE o

\* No edge object has two holders, before the call or by what it returns.
Unshared(g, r, c) ==
    /\ \A i \in 1..Len(r.edges) : r.edges[i].edge.id = 0
    /\ \A h \in Graphs : \A i \in 1..Len(edges_[h]) : edges_[h][i].edge.id = 0
    /\ \A i \in 1..Len(Objects(snap.op, snap.val)) : snap.val[i].id = 0
    /\ \A i \in 1..Len(Objects(c.op, c.val)) : c.val[i].id = 0

\* A method of graph g has completed with r and the call record c: g has
\* the sets of r, and every other holder of an edge object that the method
\* has written holds the object as written.
Apply(g, r, c) ==
    /\ call = NoCall
    /\ nodes_' = [nodes_ EXCEPT ![g] = r.nodes]
    /\ IF Unshared(g, r, c)
       THEN /\ edges_' = [edges_ EXCEPT ![g] = r.edges]
            /\ snap' = snap
            /\ call' = c
       ELSE LET es == [h \in Graphs |->
                         IF h = g THEN r.edges
                         ELSE LET own == Addressed(edges_[h], h)
                              IN [i \in 1..Len(own) |->
                                     [own[i] EXCEPT !.edge = WrittenThrough(own[i].edge, r.edges)]]]
                sv == [i \in 1..Len(Objects(snap.op, snap.val)) |->
                          WrittenThrough(snap.val[i], r.edges)]
                cv == Objects(c.op, c.val)
                ids == HeldIds(es, sv, cv)
            IN /\ edges_' = [h \in Graphs |->
                                [i \in 1..Len(es[h]) |->
                                    [es[h][i] EXCEPT !.edge.id = StoredId(ids, es[h][i].edge.id)]]]
               /\ snap' = IF snap.op = "edges"
                          THEN [snap EXCEPT !.val = [i \in 1..Len(sv) |->
                                                       [sv[i] EXCEPT !.id = StoredId(ids, sv[i].id)]]]
                          ELSE snap
               /\ call' = IF c.op = "edges"
                          THEN [c EXCEPT !.val = [i \in 1..Len(cv) |->
                                                     [cv[i] EXCEPT !.id = StoredId(ids, cv[i].id)]]]
                          ELSE c

call_insert_node(g, value) ==
    LET r == insert_node(nodes_[g], edges_[g], value, Live)
    IN Apply(g, r, Call("insert_node", g, value, 0, <<>>, r.ret))

call_insert_edge(g, src, dst, weight, cap) ==
    LET r == insert_edge(nodes_[g], edges_[g], src, dst, weight)
    IN /\ Len(r.edges) <= cap
       /\ Apply(g, r, Call("insert_edge", g, src, dst, weight, r.ret))

call_replace_node(g, old_data, new_data) ==
    LET r == replace_node(nodes_[g], edges_[g], old_data, new_data, Live)
    IN Apply(g, r, Call("replace_node", g, old_data, new_data, <<>>, r.ret))

call_merge_replace_node(g, old_data, new_data) ==
    LET r == merge_replace_node(nodes_[g], edges_[g], old_data, new_data)
    IN Apply(g, r, Call("merge_replace_node", g, old_data, new_data, <<>>, r.ret))

call_erase_node(g, value) ==
    LET r == erase_node(nodes_[g], edges_[g], value)
    IN Apply(g, r, Call("erase_node", g, value, 0, <<>>, r.ret))

call_erase_edge(g, src, dst, weight) ==
    LET r == erase_edge(nodes_[g], edges_[g], src, dst, weight)
    IN Apply(g, r, Call("erase_edge", g, src, dst, weight, r.ret))

call_erase_edge_it(g, i) ==
    LET r == erase_edge_it(nodes_[g], edges_[g], i)
    IN Apply(g, r, [Call("erase_edge_it", g, i, 0, <<>>, r.ret) EXCEPT !.it = r.it])

call_erase_edge_range(g, i, s) ==
    LET r == erase_edge_range(nodes_[g], edges_[g], i, s)
    IN Apply(g, r, [Call("erase_edge_range", g, i, s, <<>>, r.ret) EXCEPT !.it = r.it])

call_is_connected(g, src, dst) ==
    LET r == is_connected(nodes_[g], edges_[g], src, dst)
    IN Apply(g, r, Call("is_connected", g, src, dst, <<>>, r.ret))

call_nodes(g) ==
    Apply(g, Result(nodes_[g], edges_[g], "vector"),
          [Call("nodes", g, 0, 0, <<>>, "vector") EXCEPT !.val = nodes(nodes_[g])])

call_edges(g, src, dst) ==
    LET r == edges(nodes_[g], Addressed(edges_[g], g), src, dst)
    IN Apply(g, r, [Call("edges", g, src, dst, <<>>, r.ret) EXCEPT !.val = r.val])

call_find(g, src, dst, weight) ==
    LET it == find(edges_[g], src, dst, weight)
    IN Apply(g, Result(nodes_[g], edges_[g], "iterator"),
             [Call("find", g, src, dst, weight, "iterator") EXCEPT !.it = it])

call_connections(g, src) ==
    LET r == connections(nodes_[g], edges_[g], src)
    IN Apply(g, r, [Call("connections", g, src, 0, <<>>, r.ret) EXCEPT !.val = r.val])

\* *it for a dereferenceable iterator it of graph g.
call_iter_deref(g, i) ==
    Apply(g, Result(nodes_[g], edges_[g], "value_type"),
          [Call("iter_deref", g, i, 0, <<>>, "value_type") EXCEPT !.val = iter_deref(edges_[g], i)])

\* g == other
call_operator_eq(g, other) ==
    Apply(g, Result(nodes_[g], edges_[g], "bool"),
          Call("operator_eq", g, other, 0, <<>>,
               Bool(operator_eq(nodes_[g], edges_[g], nodes_[other], edges_[other]))))

\* os << g; what was written is in ret.
call_operator_out(g) ==
    Apply(g, Result(nodes_[g], edges_[g], "ostream"),
          Call("operator_out", g, 0, 0, <<>>, operator_out(nodes_[g], edges_[g])))

call_clear(g) ==
    LET r == clear(nodes_[g], edges_[g])
    IN Apply(g, r, Call("clear", g, 0, 0, <<>>, r.ret))

\* graph(graph const& other): g is a new object built from other.
call_copy_construct(g, other) ==
    /\ g # other
    /\ LET live == LivePtrs([nodes_ EXCEPT ![g] = <<>>], [edges_ EXCEPT ![g] = <<>>])
           r == deep_copy(nodes_[other], Addressed(edges_[other], other), live)
       IN Apply(g, r, Call("copy_construct", g, other, 0, <<>>, "void"))

\* operator=(graph const& other)
call_copy_assign(g, other) ==
    IF g # other
    THEN LET live == LivePtrs([nodes_ EXCEPT ![g] = <<>>], [edges_ EXCEPT ![g] = <<>>])
             r == deep_copy(nodes_[other], Addressed(edges_[other], other), live)
         IN Apply(g, r, Call("copy_assign", g, other, 0, <<>>, "void"))
    ELSE Apply(g, Result(nodes_[g], edges_[g], "void"),
               Call("copy_assign", g, other, 0, <<>>, "void"))

\* Mutant: g is built as a copy of other, and other is emptied.
call_move_construct_by_copy(g, other) ==
    /\ call = NoCall
    /\ g # other
    /\ LET live == LivePtrs([nodes_ EXCEPT ![g] = <<>>], [edges_ EXCEPT ![g] = <<>>])
           r == deep_copy(nodes_[other], edges_[other], live)
       IN /\ nodes_' = [nodes_ EXCEPT ![g] = r.nodes, ![other] = <<>>]
          /\ edges_' = [edges_ EXCEPT ![g] = r.edges, ![other] = <<>>]
    /\ snap' = snap
    /\ call' = Call("move_construct", g, other, 0, <<>>, "void")

\* graph(graph&& other): std::exchange of both sets with empty ones.
call_move_construct(g, other) ==
    /\ call = NoCall
    /\ g # other
    /\ nodes_' = [nodes_ EXCEPT ![g] = nodes_[other], ![other] = <<>>]
    /\ edges_' = [edges_ EXCEPT ![g] = edges_[other], ![other] = <<>>]
    /\ snap' = snap
    /\ call' = Call("move_construct", g, other, 0, <<>>, "void")

\* Mutant: other keeps its sets.
call_move_assign_keeps_other(g, other) ==
    /\ call = NoCall
    /\ nodes_' = [nodes_ EXCEPT ![g] = nodes_[other]]
    /\ edges_' = [edges_ EXCEPT ![g] = edges_[other]]
    /\ snap' = snap
    /\ call' = Call("move_assign", g, other, 0, <<>>, "void")

\* operator=(graph&& other)
call_move_assign(g, other) ==
    /\ call = NoCall
    /\ IF g # other
       THEN /\ nodes_' = [nodes_ EXCEPT ![g] = nodes_[other], ![other] = <<>>]
            /\ edges_' = [edges_ EXCEPT ![g] = edges_[other], ![other] = <<>>]
       ELSE UNCHANGED <<nodes_, edges_>>
    /\ snap' = snap
    /\ call' = Call("move_assign", g, other, 0, <<>>, "void")

InsertNode ==
    /\ call = NoCall
    /\ \E v \in Values : call_insert_node(1, v)
InsertEdge ==
    /\ call = NoCall
    /\ \E s \in Values, d \in Values, w \in Weights : call_insert_edge(1, s, d, w, MaxEdges)
ReplaceNode ==
    /\ call = NoCall
    /\ \E o \in Values, n \in Values : call_replace_node(1, o, n)
MergeReplaceNode ==
    /\ call = NoCall
    /\ \E o \in Values, n \in Values : call_merge_replace_node(1, o, n)
EraseNode ==
    /\ call = NoCall
    /\ \E v \in Values : call_erase_node(1, v)
EraseEdge ==
    /\ call = NoCall
    /\ \E s \in Values, d \in Values, w \in Weights : call_erase_edge(1, s, d, w)
EraseEdgeIt ==
    /\ call = NoCall
    /\ \E i \in 1..Len(edges_[1]) : call_erase_edge_it(1, i)
EraseEdgeRange ==
    /\ call = NoCall
    /\ \E i \in 1..(Len(edges_[1]) + 1) : \E s \in i..(Len(edges_[1]) + 1) :
          call_erase_edge_range(1, i, s)
Clear ==
    /\ call = NoCall
    /\ call_clear(1)

IsConnected ==
    /\ call = NoCall
    /\ \E s \in Values, d \in Values : call_is_connected(1, s, d)

\* The caller has consumed the outcome of the last call.
Return ==
    /\ call # NoCall
    /\ call' = NoCall
    /\ UNCHANGED <<nodes_, edges_, snap>>

Next ==
    \/ InsertNode
    \/ InsertEdge
    \/ ReplaceNode
    \/ MergeReplaceNode
    \/ EraseNode
    \/ EraseEdge
    \/ EraseEdgeIt
    \/ EraseEdgeRange
    \/ Clear
    \/ IsConnected
    \/ Return

Spec == Init /\ [][Next]_vars

----------------------------------------------------------------------------
(* One graph, the modifiers of Next and the accessors that return a value. *)

Nodes ==
    /\ call = NoCall
    /\ call_nodes(1)
Edges ==
    /\ call = NoCall
    /\ \E s \in Values, d \in Values : call_edges(1, s, d)
Find ==
    /\ call = NoCall
    /\ \E s \in Values, d \in Values, w \in Weights : call_find(1, s, d, w)
Connections ==
    /\ call = NoCall
    /\ \E s \in Values : call_connections(1, s)
IterDeref ==
    /\ call = NoCall
    /\ \E i \in 1..Len(edges_[1]) : call_iter_deref(1, i)
OperatorOut ==
    /\ call = NoCall
    /\ call_operator_out(1)

NextRead ==
    \/ Next
    \/ Nodes
    \/ Edges
    \/ Find
    \/ Connections
    \/ IterDeref
    \/ OperatorOut

SpecRead == Init /\ [][NextRead]_vars

----------------------------------------------------------------------------
(* Two graphs: every method on either graph, and copy / move construction  *)
(* and assignment between them (assignment also of a graph to itself).     *)

CopyInsertNode ==
    /\ call = NoCall
    /\ \E g \in Graphs, v \in CopyValues : call_insert_node(g, v)
CopyInsertEdge ==
    /\ call = NoCall
    /\ \E g \in Graphs, s \in CopyValues, d \in CopyValues, w \in CopyWeights :
          call_insert_edge(g, s, d, w, MaxCopyEdges)
CopyReplaceNode ==
    /\ call = NoCall
    /\ \E g \in Graphs, o \in CopyValues, n \in CopyValues : call_replace_node(g, o, n)
CopyMergeReplaceNode ==
    /\ call = NoCall
    /\ \E g \in Graphs, o \in CopyValues, n \in CopyValues : call_merge_replace_node(g, o, n)
CopyEraseNode ==
    /\ call = NoCall
    /\ \E g \in Graphs, v \in CopyValues : call_erase_node(g, v)
CopyEraseEdge ==
    /\ call = NoCall
    /\ \E g \in Graphs, s \in CopyValues, d \in CopyValues, w \in CopyWeights :
          call_erase_edge(g, s, d, w)
CopyEraseEdgeIt ==
    /\ call = NoCall
    /\ \E g \in Graphs : \E i \in 1..Len(edges_[g]) : call_erase_edge_it(g, i)
CopyEraseEdgeRange ==
    /\ call = NoCall
    /\ \E g \in Graphs : \E i \in 1..(Len(edges_[g]) + 1) : \E s \in i..(Len(edges_[g]) + 1) :
          call_erase_edge_range(g, i, s)
CopyClear ==
    /\ call = NoCall
    /\ \E g \in Graphs : call_clear(g)
CopyIsConnected ==
    /\ call = NoCall
    /\ \E g \in Graphs, s \in CopyValues, d \in CopyValues : call_is_connected(g, s, d)
CopyOperatorEq ==
    /\ call = NoCall
    /\ \E g \in Graphs, other \in Graphs : call_operator_eq(g, other)
CopyOperatorOut ==
    /\ call = NoCall
    /\ \E g \in Graphs : call_operator_out(g)
CopyConstruct ==
    /\ call = NoCall
    /\ \E g \in Graphs, other \in Graphs : call_copy_construct(g, other)
CopyAssign ==
    /\ call = NoCall
    /\ \E g \in Graphs, other \in Graphs : call_copy_assign(g, other)
MoveConstruct ==
    /\ call = NoCall
    /\ \E g \in Graphs, other \in Graphs : call_move_construct(g, other)
MoveAssign ==
    /\ call = NoCall
    /\ \E g \in Graphs, other \in Graphs : call_move_assign(g, other)

NextCopy ==
    \/ CopyInsertNode
    \/ CopyInsertEdge
    \/ CopyReplaceNode
    \/ CopyMergeReplaceNode
    \/ CopyEraseNode
    \/ CopyEraseEdge
    \/ CopyEraseEdgeIt
    \/ CopyEraseEdgeRange
    \/ CopyClear
    \/ CopyIsConnected
    \/ CopyOperatorEq
    \/ CopyOperatorOut
    \/ CopyConstruct
    \/ CopyAssign
    \/ MoveConstruct
    \/ MoveAssign
    \/ Return

SpecCopy == Init /\ [][NextCopy]_vars

----------------------------------------------------------------------------
(* One graph and a caller that keeps what nodes(), edges() or *it returned *)
(* while it goes on modifying the graph.                                   *)

\* The caller keeps the value just returned (in place of one kept before).
Keep ==
    /\ call.op \in {"nodes", "edges", "iter_deref"}
    /\ call.ret # "throw"
    /\ snap' = Snap(call.op, call.val)
    /\ call' = NoCall
    /\ UNCHANGED <<nodes_, edges_>>

SnapInsertNode ==
    /\ call = NoCall
    /\ \E v \in CopyValues : call_insert_node(1, v)
SnapInsertEdge ==
    /\ call = NoCall
    /\ \E s \in CopyValues, d \in CopyValues, w \in CopyWeights :
          call_insert_edge(1, s, d, w, MaxSnapEdges)
SnapReplaceNode ==
    /\ call = NoCall
    /\ \E o \in CopyValues, n \in CopyValues : call_replace_node(1, o, n)
SnapMergeReplaceNode ==
    /\ call = NoCall
    /\ \E o \in CopyValues, n \in CopyValues : call_merge_replace_node(1, o, n)
SnapEraseNode ==
    /\ call = NoCall
    /\ \E v \in CopyValues : call_erase_node(1, v)
SnapEraseEdge ==
    /\ call = NoCall
    /\ \E s \in CopyValues, d \in CopyValues, w \in CopyWeights : call_erase_edge(1, s, d, w)
SnapEraseEdgeIt ==
    /\ call = NoCall
    /\ \E i \in 1..Len(edges_[1]) : call_erase_edge_it(1, i)
SnapEraseEdgeRange ==
    /\ call = NoCall
    /\ \E i \in 1..(Len(edges_[1]) + 1) : \E s \in i..(Len(edges_[1]) + 1) :
          call_erase_edge_range(1, i, s)
SnapClear ==
    /\ call = NoCall
    /\ call_clear(1)
SnapNodes ==
    /\ call = NoCall
    /\ call_nodes(1)
SnapEdges ==
    /\ call = NoCall
    /\ \E s \in CopyValues, d \in CopyValues : call_edges(1, s, d)
SnapIterDeref ==
    /\ call = NoCall
    /\ \E i \in 1..Len(edges_[1]) : call_iter_deref(1, i)

NextSnap ==
    \/ SnapInsertNode
    \/ SnapInsertEdge
    \/ SnapReplaceNode
    \/ SnapMergeReplaceNode
    \/ SnapEraseNode
    \/ SnapEraseEdge
    \/ SnapEraseEdgeIt
    \/ SnapEraseEdgeRange
    \/ SnapClear
    \/ SnapNodes
    \/ SnapEdges
    \/ SnapIterDeref
    \/ Keep
    \/ Return

SpecSnap == Init /\ [][NextSnap]_vars

----------------------------------------------------------------------------
(* Graphs constructed from a sequence of node values: graph 1 is each time *)
(* a new object built from the sequence, which the call record keeps in    *)
(* val.                                                                    *)

\* Longest sequence a graph is constructed from.
MaxListLen == 4

RECURSIVE SeqsUpTo(_, _)
SeqsUpTo(S, n) ==
    IF n = 0 THEN {<<>>}
    ELSE LET shorter == SeqsUpTo(S, n - 1)
         IN shorter \cup {Append(q, x) : q \in shorter, x \in S}

call_graph_list(g, il) ==
    LET live == LivePtrs([nodes_ EXCEPT ![g] = <<>>], [edges_ EXCEPT ![g] = <<>>])
        r == graph_list(il, live)
    IN Apply(g, r, [Call("graph_list", g, 0, 0, <<>>, r.ret) EXCEPT !.val = il])

call_graph_range(g, elems) ==
    LET live == LivePtrs([nodes_ EXCEPT ![g] = <<>>], [edges_ EXCEPT ![g] = <<>>])
        r == graph_range(elems, live)
    IN Apply(g, r, [Call("graph_range", g, 0, 0, <<>>, r.ret) EXCEPT !.val = elems])

ConstructList ==
    /\ call = NoCall
    /\ \E il \in SeqsUpTo(Values, MaxListLen) : call_graph_list(1, il)
ConstructRange ==
    /\ call = NoCall
    /\ \E elems \in SeqsUpTo(Values, MaxListLen) : call_graph_range(1, elems)

NextList ==
    \/ ConstructList
    \/ ConstructRange
    \/ InsertNode
    \/ Return

SpecList == Init /\ [][NextList]_vars

----------------------------------------------------------------------------
(* One graph built by insert_node, insert_edge and replace_node, and a     *)
(* caller that walks its edges with an iterator.  The call record of an    *)
(* iterator operation holds in it the position of the caller's iterator,   *)
(* in a its position before the operation and in b the position of the     *)
(* iterator returned.  The caller steps the iterator only where it can be  *)
(* stepped, and gives it up before it modifies the graph.                  *)

IterOps ==
    {"begin", "end", "operator_pre_inc", "operator_post_inc", "operator_pre_dec",
     "operator_post_dec", "iter_operator_eq"}

call_iter(op, prev, r, ret) ==
    /\ call' = [Call(op, 1, prev, r.ret, <<>>, ret) EXCEPT !.it = r.it]
    /\ UNCHANGED <<nodes_, edges_, snap>>

Begin ==
    /\ call = NoCall
    /\ call_iter("begin", 0, [it |-> begin(edges_[1]), ret |-> begin(edges_[1])], "iterator")
End ==
    /\ call = NoCall
    /\ call_iter("end", 0, [it |-> end(edges_[1]), ret |-> end(edges_[1])], "iterator")
PreInc ==
    /\ call.op \in IterOps
    /\ call.it # end(edges_[1])
    /\ call_iter("operator_pre_inc", call.it, operator_pre_inc(call.it), "iterator")
PostInc ==
    /\ call.op \in IterOps
    /\ call.it # end(edges_[1])
    /\ call_iter("operator_post_inc", call.it, operator_post_inc(call.it), "iterator")
PreDec ==
    /\ call.op \in IterOps
    /\ call.it # begin(edges_[1])
    /\ call_iter("operator_pre_dec", call.it, operator_pre_dec(call.it), "iterator")
PostDec ==
    /\ call.op \in IterOps
    /\ call.it # begin(edges_[1])
    /\ call_iter("operator_post_dec", call.it, operator_post_dec(call.it), "iterator")
\* it == other, for an iterator other of the same graph.
IterOperatorEq ==
    /\ call.op \in IterOps
    /\ \E j \in begin(edges_[1])..end(edges_[1]) :
          call_iter("iter_operator_eq", call.it, [it |-> call.it, ret |-> j],
                    Bool(iter_operator_eq(set_it_(1, edges_[1], call.it),
                                          set_it_(1, edges_[1], j))))

NextIter ==
    \/ InsertNode
    \/ InsertEdge
    \/ ReplaceNode
    \/ Return
    \/ Begin
    \/ End
    \/ PreInc
    \/ PostInc
    \/ PreDec
    \/ PostDec
    \/ IterOperatorEq

SpecIter == Init /\ [][NextIter]_vars

----------------------------------------------------------------------------
(* What a caller can observe of a graph.                                   *)

\* The values in the node store.
NodeSet(ns) == {ns[i].val : i \in 1..Len(ns)}

\* The stored edges by the nodes they are keyed by.
EdgeSet(es) == {<<es[i].src.val, es[i].dst.val, es[i].edge.weight_>> : i \in 1..Len(es)}

\* The stored edge records in iteration order, as an iterator yields them.
Records(es) == [i \in 1..Len(es) |-> <<es[i].edge.src_, es[i].edge.dst_, es[i].edge.weight_>>]

\* The order of section 3 of the specification on (from, to, weight).
WeightBefore(w1, w2) ==
    \/ w1 = <<>> /\ w2 # <<>>
    \/ w1 # <<>> /\ w2 # <<>> /\ w1[1] < w2[1]

RecordBefore(r1, r2) ==
    \/ r1[1] < r2[1]
    \/ r1[1] = r2[1] /\ r1[2] < r2[2]
    \/ r1[1] = r2[1] /\ r1[2] = r2[2] /\ WeightBefore(r1[3], r2[3])

\* The (from, to, weight) values of the stored records.
RecordSet(es) == {<<es[i].edge.src_, es[i].edge.dst_, es[i].edge.weight_>> : i \in 1..Len(es)}

\* The call that has completed (a state) / that this step makes (a step).
CallOn(op) == call.op = op
CalledOn(op) == call'.op = op

----------------------------------------------------------------------------
(* C1..C3: invariants of the stores.                                       *)

\* C1: no dangling edges.  In every state reachable by insert_node,
\* insert_edge, replace_node, merge_replace_node, erase_node, the three
\* erase_edge, clear, copy and move, the node an edge is keyed by and the
\* value its record holds, for the source and for the destination, are in
\* the node store of the same graph.
C1_NoDanglingEdges ==
    \A g \in Graphs : \A i \in 1..Len(edges_[g]) :
        LET e == edges_[g][i]
        IN /\ e.src.val \in NodeSet(nodes_[g])
           /\ e.dst.val \in NodeSet(nodes_[g])
           /\ e.edge.src_ \in NodeSet(nodes_[g])
           /\ e.edge.dst_ \in NodeSet(nodes_[g])

\* erase_node has removed a node of a graph that still stores an edge.
C1_Witness ==
    /\ CallOn("erase_node")
    /\ call.ret = "true"
    /\ edges_[call.g] # <<>>
    /\ nodes_[3 - call.g] # <<>>

\* C2: duplicate freedom.  No two stored nodes have equal values and no two
\* stored edge records have the same (source, destination, weight) triple.
C2_DuplicateFree ==
    \A g \in Graphs :
        /\ \A i, j \in 1..Len(nodes_[g]) : i # j => nodes_[g][i].val # nodes_[g][j].val
        /\ \A i, j \in 1..Len(edges_[g]) : i # j =>
              /\ Records(edges_[g])[i] # Records(edges_[g])[j]
              /\ <<edges_[g][i].src.val, edges_[g][i].dst.val, edges_[g][i].edge.weight_>>
                    # <<edges_[g][j].src.val, edges_[g][j].dst.val, edges_[g][j].edge.weight_>>

\* merge_replace_node has merged two different nodes and edges remain.
C2_Witness ==
    /\ CallOn("merge_replace_node")
    /\ call.a # call.b
    /\ call.ret = "void"
    /\ Len(edges_[call.g]) >= 2

\* C3: edge ordering.  From begin() to end() the records are strictly
\* ascending by source, then destination, then weight, the unweighted record
\* before the weighted ones.
C3_EdgeOrder ==
    \A g \in Graphs : \A i \in 1..(Len(edges_[g]) - 1) :
        RecordBefore(Records(edges_[g])[i], Records(edges_[g])[i + 1])

\* replace_node has moved a node past another one (from the lowest value to
\* the highest) in a graph with at least two edges on different sources.
C3_Witness ==
    /\ CallOn("replace_node")
    /\ call.ret = "true"
    /\ \E v \in NodeSet(nodes_[call.g]) : call.a < v /\ v < call.b
    /\ \E i, j \in 1..Len(edges_[call.g]) :
          /\ edges_[call.g][i].edge.src_ = call.b
          /\ edges_[call.g][j].edge.src_ # call.b

----------------------------------------------------------------------------
(* C4..C10: insert_node, insert_edge, replace_node.  A step that makes a   *)
(* call takes the graph from the unprimed state to the primed one and      *)
(* leaves the call and its result in call'.                                *)

\* C4: insert_node(v) returns true exactly when v was not a node before;
\* afterwards v is a node, every node object held before is still held, no
\* other value appears, the edges are unchanged, and a second insert_node(v)
\* returns false and changes nothing.
C4_InsertNode ==
    [][CalledOn("insert_node") =>
        LET g == call'.g
            v == call'.a
            again == insert_node(nodes_'[g], edges_'[g], v, LivePtrs(nodes_', edges_'))
        IN /\ call'.ret = Bool(v \notin NodeSet(nodes_[g]))
           /\ v \in NodeSet(nodes_'[g])
           /\ NodeSet(nodes_'[g]) = NodeSet(nodes_[g]) \cup {v}
           /\ Range(nodes_[g]) \subseteq Range(nodes_'[g])
           /\ Len(nodes_'[g]) = Cardinality(NodeSet(nodes_'[g]))
           /\ edges_' = edges_
           /\ again.ret = "false"
           /\ again.nodes = nodes_'[g] /\ again.edges = edges_'[g]]_vars

\* insert_node has returned true on a graph that held other nodes and edges.
C4_Witness ==
    /\ CallOn("insert_node")
    /\ call.ret = "true"
    /\ Len(nodes_[call.g]) >= 2
    /\ edges_[call.g] # <<>>

\* C5: with src and dst both nodes, insert_edge(src, dst, w) returns true
\* exactly when no stored record has the triple (src, dst, w); afterwards
\* the record is stored, every record stored before is still stored
\* unchanged, one record at most was added and the nodes are unchanged.
\* The triple includes the presence of the weight: <<>> (unweighted), <<0>>
\* and <<1>> on the same pair are three records, and src = dst is accepted.
C5_InsertEdge ==
    [][(/\ CalledOn("insert_edge")
        /\ call'.a \in NodeSet(nodes_[call'.g])
        /\ call'.b \in NodeSet(nodes_[call'.g])) =>
        LET g == call'.g
            t == <<call'.a, call'.b, call'.w>>
        IN /\ call'.ret = Bool(t \notin RecordSet(edges_[g]))
           /\ t \in RecordSet(edges_'[g])
           /\ RecordSet(edges_'[g]) = RecordSet(edges_[g]) \cup {t}
           /\ EdgeSet(edges_'[g]) = EdgeSet(edges_[g]) \cup {t}
           /\ Range(edges_[g]) \subseteq Range(edges_'[g])
           /\ Len(edges_'[g]) = Len(edges_[g]) + (IF call'.ret = "true" THEN 1 ELSE 0)
           /\ nodes_' = nodes_
           /\ \A h \in Graphs \ {g} : edges_'[h] = edges_[h]]_vars

\* insert_edge has returned true for an unweighted self-loop on a node that
\* already had the self-loops of weight 0 and of weight 1.
C5_Witness ==
    /\ CallOn("insert_edge")
    /\ call.ret = "true"
    /\ call.a = call.b
    /\ call.w = <<>>
    /\ {<<call.a, call.a, <<>>>>, <<call.a, call.a, <<0>>>>, <<call.a, call.a, <<1>>>>}
          \subseteq RecordSet(edges_[call.g])

\* C6: insert_edge(src, dst, w) raises node-not-found whenever src or dst is
\* not a node, for every w, and leaves the nodes and the edges as they were.
C6_InsertEdgeThrows ==
    [][(/\ CalledOn("insert_edge")
        /\ \/ call'.a \notin NodeSet(nodes_[call'.g])
           \/ call'.b \notin NodeSet(nodes_[call'.g])) =>
        /\ call'.ret = "throw"
        /\ nodes_' = nodes_
        /\ edges_' = edges_]_vars

\* insert_edge has thrown for a weighted edge whose source is a node and
\* whose destination is not, on a graph that stores edges.
C6_Witness ==
    /\ CallOn("insert_edge")
    /\ call.ret = "throw"
    /\ call.w # <<>>
    /\ call.a \in NodeSet(nodes_[call.g])
    /\ call.b \notin NodeSet(nodes_[call.g])
    /\ edges_[call.g] # <<>>

\* C7 as stated: replace_node(old, new) with old = new and old present
\* returns true and leaves the node set and the edge set unchanged.
C7_ReplaceSameReturnsTrue ==
    [][(/\ CalledOn("replace_node")
        /\ call'.a = call'.b
        /\ call'.a \in NodeSet(nodes_[call'.g])) =>
        /\ call'.ret = "true"
        /\ NodeSet(nodes_'[call'.g]) = NodeSet(nodes_[call'.g])
        /\ RecordSet(edges_'[call'.g]) = RecordSet(edges_[call'.g])]_vars

\* C7 amended: replace_node(old, new) with old = new and old present returns
\* false and leaves the node set and the edge set unchanged.
C7_ReplaceSameReturnsFalse ==
    [][(/\ CalledOn("replace_node")
        /\ call'.a = call'.b
        /\ call'.a \in NodeSet(nodes_[call'.g])) =>
        /\ call'.ret = "false"
        /\ NodeSet(nodes_'[call'.g]) = NodeSet(nodes_[call'.g])
        /\ RecordSet(edges_'[call'.g]) = RecordSet(edges_[call'.g])
        /\ EdgeSet(edges_'[call'.g]) = EdgeSet(edges_[call'.g])]_vars

\* replace_node(x, x) has completed without throwing on a node with a
\* self-loop.
C7_Witness ==
    /\ CallOn("replace_node")
    /\ call.a = call.b
    /\ call.ret # "throw"
    /\ <<call.a, call.a>> \in {<<r[1], r[2]>> : r \in RecordSet(edges_[call.g])}

\* C8: replace_node(x, x) for a node x that is present returns false, x is
\* still a node afterwards (is_node(x)) and the graph is as it was: the same
\* node objects and the same edge tuples in the same order.
C8_ReplaceSameKeepsNode ==
    [][(/\ CalledOn("replace_node")
        /\ call'.a = call'.b
        /\ is_node(nodes_[call'.g], call'.a)) =>
        /\ call'.ret = "false"
        /\ is_node(nodes_'[call'.g], call'.a)
        /\ nodes_' = nodes_
        /\ edges_' = edges_]_vars

\* replace_node(x, x) has returned false on a graph with another node.
C8_Witness ==
    /\ CallOn("replace_node")
    /\ call.a = call.b
    /\ call.ret = "false"
    /\ \E v \in NodeSet(nodes_[call.g]) : v # call.a

\* C9: replace_node(old, new) raises node-not-found whenever old is not a
\* node, whether new is a node, is not a node or equals old, and leaves the
\* nodes and the edges as they were; new being a node does not turn the error
\* into the result false.
C9_ReplaceThrows ==
    [][(/\ CalledOn("replace_node")
        /\ call'.a \notin NodeSet(nodes_[call'.g])) =>
        /\ call'.ret = "throw"
        /\ nodes_' = nodes_
        /\ edges_' = edges_]_vars

\* replace_node has thrown for an absent old and a new that is a node.
C9_Witness ==
    /\ CallOn("replace_node")
    /\ call.ret = "throw"
    /\ call.a \notin NodeSet(nodes_[call.g])
    /\ call.b \in NodeSet(nodes_[call.g])
    /\ edges_[call.g] # <<>>

\* C10: replace_node(old, new) with old present and new present as a
\* different node returns false, and both nodes, all other nodes and every
\* edge record are as before the call.
C10_ReplaceOntoExisting ==
    [][(/\ CalledOn("replace_node")
        /\ call'.a # call'.b
        /\ call'.a \in NodeSet(nodes_[call'.g])
        /\ call'.b \in NodeSet(nodes_[call'.g])) =>
        /\ call'.ret = "false"
        /\ NodeSet(nodes_'[call'.g]) = NodeSet(nodes_[call'.g])
        /\ nodes_' = nodes_
        /\ Records(edges_'[call'.g]) = Records(edges_[call'.g])
        /\ edges_' = edges_]_vars

\* replace_node has returned false for two different nodes joined by an
\* edge.
C10_Witness ==
    /\ CallOn("replace_node")
    /\ call.ret = "false"
    /\ call.a # call.b
    /\ \E w \in Weights : <<call.a, call.b, w>> \in RecordSet(edges_[call.g])

----------------------------------------------------------------------------
(* C11..C14: replace_node onto a new value, merge_replace_node.            *)

\* A record with old renamed to new in both endpoint positions.
Rename(t, old, new) ==
    <<IF t[1] = old THEN new ELSE t[1], IF t[2] = old THEN new ELSE t[2], t[3]>>

\* C11: replace_node(old, new) with old present and new absent returns
\* true; the node set is the previous one with old replaced by new, the
\* other node objects are the same, the edge set is the image of the
\* previous one under renaming old to new in both positions (weights kept),
\* the number of edges is unchanged and the edges not incident to old are
\* untouched.
C11_ReplaceRenames ==
    [][(/\ CalledOn("replace_node")
        /\ call'.a \in NodeSet(nodes_[call'.g])
        /\ call'.b \notin NodeSet(nodes_[call'.g])) =>
        LET g == call'.g
            old == call'.a
            new == call'.b
        IN /\ call'.ret = "true"
           /\ NodeSet(nodes_'[g]) = (NodeSet(nodes_[g]) \ {old}) \cup {new}
           /\ Len(nodes_'[g]) = Len(nodes_[g])
           /\ {p \in Range(nodes_[g]) : p.val # old} \subseteq Range(nodes_'[g])
           /\ RecordSet(edges_'[g]) = {Rename(t, old, new) : t \in RecordSet(edges_[g])}
           /\ EdgeSet(edges_'[g]) = {Rename(t, old, new) : t \in EdgeSet(edges_[g])}
           /\ Len(edges_'[g]) = Len(edges_[g])
           /\ {e \in Range(edges_[g]) : e.edge.src_ # old /\ e.edge.dst_ # old}
                 \subseteq Range(edges_'[g])]_vars

\* replace_node has returned true and the renamed node has a self-loop, an
\* edge to another node and the graph an edge that does not touch it.
C11_Witness ==
    /\ CallOn("replace_node")
    /\ call.ret = "true"
    /\ \E t1, t2, t3 \in RecordSet(edges_[call.g]) :
          /\ t1[1] = call.b /\ t1[2] = call.b
          /\ (t2[1] = call.b) # (t2[2] = call.b)
          /\ t3[1] # call.b /\ t3[2] # call.b

\* C12: merge_replace_node(old, new) with both present and different: old is
\* no longer a node, new and all other nodes are the same node objects, the
\* edge set is the previous one with old replaced by new in both positions,
\* records that become identical being one record, so that no two stored
\* records are equal and the number of edges does not grow.
C12_MergeRedirects ==
    [][(/\ CalledOn("merge_replace_node")
        /\ call'.a # call'.b
        /\ call'.a \in NodeSet(nodes_[call'.g])
        /\ call'.b \in NodeSet(nodes_[call'.g])) =>
        LET g == call'.g
            old == call'.a
            new == call'.b
        IN /\ call'.ret = "void"
           /\ old \notin NodeSet(nodes_'[g])
           /\ NodeSet(nodes_'[g]) = NodeSet(nodes_[g]) \ {old}
           /\ Range(nodes_'[g]) = {p \in Range(nodes_[g]) : p.val # old}
           /\ RecordSet(edges_'[g]) = {Rename(t, old, new) : t \in RecordSet(edges_[g])}
           /\ EdgeSet(edges_'[g]) = {Rename(t, old, new) : t \in EdgeSet(edges_[g])}
           /\ Len(edges_'[g]) = Cardinality(RecordSet(edges_'[g]))
           /\ Len(edges_'[g]) <= Len(edges_[g])
           /\ {e \in Range(edges_[g]) : e.edge.src_ # old /\ e.edge.dst_ # old}
                 \subseteq Range(edges_'[g])]_vars

\* merge_replace_node has merged two different nodes and the target has
\* edges to and from a third node.
C12_Witness ==
    /\ CallOn("merge_replace_node")
    /\ call.a # call.b
    /\ call.ret = "void"
    /\ \E t1, t2 \in RecordSet(edges_[call.g]) :
          /\ t1[1] = call.b /\ t1[2] # call.b
          /\ t2[2] = call.b /\ t2[1] # call.b

\* C13: merge_replace_node(old, new) raises node-not-found whenever old or
\* new is not a node and then leaves the nodes and the edges as they were;
\* and after a merge of two different nodes the same call raises, old being
\* gone.
C13_MergeThrows ==
    [][CalledOn("merge_replace_node") =>
        LET g == call'.g
            again == merge_replace_node(nodes_'[g], edges_'[g], call'.a, call'.b)
        IN /\ (call'.a \notin NodeSet(nodes_[g]) \/ call'.b \notin NodeSet(nodes_[g])) =>
                 /\ call'.ret = "throw"
                 /\ nodes_' = nodes_
                 /\ edges_' = edges_
           /\ (call'.ret = "void" /\ call'.a # call'.b) =>
                 /\ again.ret = "throw"
                 /\ again.nodes = nodes_'[g] /\ again.edges = edges_'[g]]_vars

\* merge_replace_node has thrown for an old that is a node with edges and a
\* new that is not a node.
C13_Witness ==
    /\ CallOn("merge_replace_node")
    /\ call.ret = "throw"
    /\ call.a \in NodeSet(nodes_[call.g])
    /\ call.b \notin NodeSet(nodes_[call.g])
    /\ \E t \in RecordSet(edges_[call.g]) : t[1] = call.a \/ t[2] = call.a

\* C14: merge_replace_node(x, x) for a node x that is present completes
\* without error and leaves the nodes and the edges exactly as they were.
C14_MergeSame ==
    [][(/\ CalledOn("merge_replace_node")
        /\ call'.a = call'.b
        /\ call'.a \in NodeSet(nodes_[call'.g])) =>
        /\ call'.ret = "void"
        /\ call'.a \in NodeSet(nodes_'[call'.g])
        /\ nodes_' = nodes_
        /\ edges_' = edges_
        /\ Records(edges_'[call'.g]) = Records(edges_[call'.g])]_vars

\* merge_replace_node(x, x) has completed on a node with a self-loop and an
\* edge to another node.
C14_Witness ==
    /\ CallOn("merge_replace_node")
    /\ call.a = call.b
    /\ call.ret = "void"
    /\ \E t1, t2 \in RecordSet(edges_[call.g]) :
          /\ t1[1] = call.a /\ t1[2] = call.a
          /\ t2[1] = call.a /\ t2[2] # call.a

----------------------------------------------------------------------------
(* C15..C20: erase_node, the three erase_edge, clear, is_connected.        *)

C16_EraseEdge ==
    [][CalledOn("erase_edge") =>
        LET g == call'.g
            t == <<call'.a, call'.b, call'.w>>
            again == erase_edge(nodes_'[g], edges_'[g], call'.a, call'.b, call'.w)
        IN IF call'.a \notin NodeSet(nodes_[g]) \/ call'.b \notin NodeSet(nodes_[g])
           THEN /\ call'.ret = "throw"
                /\ nodes_' = nodes_
                /\ edges_' = edges_
           ELSE /\ call'.ret = Bool(t \in RecordSet(edges_[g]))
                /\ nodes_' = nodes_
                /\ edges_'[g] = SelectSeq(edges_[g],
                                          LAMBDA e : <<e.edge.src_, e.edge.dst_, e.edge.weight_>> # t)
                /\ RecordSet(edges_'[g]) = RecordSet(edges_[g]) \ {t}
                /\ call'.ret = "false" => edges_' = edges_
                /\ again.ret = "false"
                /\ again.nodes = nodes_'[g] /\ again.edges = edges_'[g]]_vars

\* erase_edge has returned true for a weighted record and the unweighted
\* record and another weighted record between the same nodes are still
\* stored.
C16_Witness ==
    /\ CallOn("erase_edge")
    /\ call.ret = "true"
    /\ call.w # <<>>
    /\ <<call.a, call.b, <<>>>> \in RecordSet(edges_[call.g])
    /\ \E w \in Weights \ {<<>>, call.w} : <<call.a, call.b, w>> \in RecordSet(edges_[call.g])

\* C17: erase_edge(it) at a dereferenceable position of an edge sequence of
\* length n removes exactly the record at that position, leaves the nodes
\* and every other record unchanged, makes the edge count n - 1, and returns
\* the position of the record that followed: end() when the position was
\* the last one, begin() when it was the first.
C17_EraseEdgeIt ==
    [][CalledOn("erase_edge_it") =>
        LET g == call'.g
            k == call'.a
            n == Len(edges_[g])
        IN /\ k \in 1..n
           /\ nodes_' = nodes_
           /\ Len(edges_'[g]) = n - 1
           /\ \A j \in 1..(n - 1) : edges_'[g][j] = edges_[g][IF j < k THEN j ELSE j + 1]
           /\ RecordSet(edges_'[g]) = RecordSet(edges_[g]) \ {Records(edges_[g])[k]}
           /\ call'.ret = "iterator"
           /\ call'.it = k
           /\ k < n => edges_'[g][call'.it] = edges_[g][k + 1]
           /\ k = n => call'.it = end(edges_'[g])
           /\ k = 1 => call'.it = begin(edges_'[g])]_vars

\* erase_edge(it) has erased a record in the middle of three and returned
\* the position of the one that followed.
C17_Witness ==
    /\ CallOn("erase_edge_it")
    /\ call.a = 2
    /\ Len(edges_[call.g]) = 2
    /\ call.it # begin(edges_[call.g])
    /\ call.it # end(edges_[call.g])

\* C18: erase_edge(i, s) for positions a <= b removes exactly the records
\* at a .. b-1, leaves the nodes and every other record unchanged, and
\* returns the position of the record that was at b, or end(); when a = b
\* nothing is removed and the returned position is a.
C18_EraseEdgeRange ==
    [][CalledOn("erase_edge_range") =>
        LET g == call'.g
            a == call'.a
            b == call'.b
            n == Len(edges_[g])
        IN /\ 1 <= a /\ a <= b /\ b <= n + 1
           /\ nodes_' = nodes_
           /\ Len(edges_'[g]) = n - (b - a)
           /\ \A j \in 1..Len(edges_'[g]) :
                 edges_'[g][j] = edges_[g][IF j < a THEN j ELSE j + (b - a)]
           /\ RecordSet(edges_'[g]) =
                 RecordSet(edges_[g]) \ {Records(edges_[g])[j] : j \in a..(b - 1)}
           /\ call'.ret = "iterator"
           /\ call'.it = a
           /\ b <= n => edges_'[g][call'.it] = edges_[g][b]
           /\ b = n + 1 => call'.it = end(edges_'[g])
           /\ a = b => edges_' = edges_]_vars

\* erase_edge(i, s) has erased a range that starts after the first record
\* and stops before the last one.
C18_Witness ==
    /\ CallOn("erase_edge_range")
    /\ call.a = 2
    /\ call.b = 3
    /\ Len(edges_[call.g]) = 2
    /\ call.it = 2

\* C19: clear() leaves no node and no edge: empty() is true, nodes() is
\* empty and begin() = end(); on an empty graph it changes nothing; and
\* insert_node afterwards returns true and the node is present.
C19_Clear ==
    [][CalledOn("clear") =>
        LET g == call'.g
        IN /\ call'.ret = "void"
           /\ nodes_'[g] = <<>>
           /\ edges_'[g] = <<>>
           /\ empty(nodes_'[g])
           /\ nodes(nodes_'[g]) = <<>>
           /\ begin(edges_'[g]) = end(edges_'[g])
           /\ empty(nodes_[g]) => (nodes_' = nodes_ /\ edges_' = edges_)
           /\ \A v \in Values :
                 LET r == insert_node(nodes_'[g], edges_'[g], v, Live')
                 IN /\ r.ret = "true"
                    /\ is_node(r.nodes, v)
                    /\ nodes(r.nodes) = <<v>>]_vars

\* clear() has returned and the graph is empty.
C19_Witness ==
    /\ CallOn("clear")
    /\ call.ret = "void"
    /\ empty(nodes_[call.g])
    /\ begin(edges_[call.g]) = end(edges_[call.g])

\* C20: is_connected(src, dst) raises node-not-found when src or dst is not
\* a node; otherwise it returns true exactly when a record with source src
\* and destination dst is stored, weighted or not, an edge from dst to src
\* not counting.  The graph is never changed.
C20_IsConnected ==
    [][CalledOn("is_connected") =>
        LET g == call'.g
        IN /\ nodes_' = nodes_
           /\ edges_' = edges_
           /\ IF call'.a \notin NodeSet(nodes_[g]) \/ call'.b \notin NodeSet(nodes_[g])
              THEN call'.ret = "throw"
              ELSE call'.ret =
                      Bool(\E w \in Weights : <<call'.a, call'.b, w>> \in RecordSet(edges_[g]))]_vars

\* is_connected(src, dst) has returned false while an edge from dst to src
\* is stored.
C20_Witness ==
    /\ CallOn("is_connected")
    /\ call.ret = "false"
    /\ call.a # call.b
    /\ \E w \in Weights : <<call.b, call.a, w>> \in RecordSet(edges_[call.g])

----------------------------------------------------------------------------
(* C21..C24: edges, find, connections, nodes.                              *)

\* C21: edges(src, dst) raises node-not-found when src or dst is not a
\* node; otherwise it returns exactly the stored records with source src
\* and destination dst, each once, the unweighted one (if any) first and
\* the weighted ones in ascending weight.  The graph is left as it was.
C21_Edges ==
    [][CalledOn("edges") =>
        LET g == call'.g
            val == call'.val
        IN /\ nodes_' = nodes_
           /\ edges_' = edges_
           /\ IF call'.a \notin NodeSet(nodes_[g]) \/ call'.b \notin NodeSet(nodes_[g])
              THEN call'.ret = "throw"
              ELSE /\ call'.ret = "vector"
                   /\ {<<val[i].src_, val[i].dst_, val[i].weight_>> : i \in 1..Len(val)}
                         = {t \in RecordSet(edges_[g]) : t[1] = call'.a /\ t[2] = call'.b}
                   /\ \A i, j \in 1..Len(val) :
                         i < j => WeightBefore(val[i].weight_, val[j].weight_)]_vars

\* edges(src, dst) has returned the unweighted and two weighted records of
\* one pair.
C21_Witness ==
    /\ CallOn("edges")
    /\ call.ret = "vector"
    /\ Len(call.val) = 3
    /\ call.val[1].weight_ = <<>>
    /\ call.a # call.b

\* C22: find(src, dst, w) never raises: it returns the position of the
\* stored record (src, dst, w) when there is one and end() otherwise, also
\* when src or dst is not a node, when only other weights connect the pair
\* and on an empty graph.
C22_Find ==
    [][CalledOn("find") =>
        LET g == call'.g
            t == <<call'.a, call'.b, call'.w>>
            es == edges_[g]
        IN /\ nodes_' = nodes_
           /\ edges_' = edges_
           /\ call'.ret = "iterator"
           /\ call'.it \in begin(es)..end(es)
           /\ IF t \in RecordSet(es)
              THEN call'.it # end(es) /\ Records(es)[call'.it] = t
              ELSE call'.it = end(es)]_vars

\* find(src, dst, nullopt) has returned end() for two nodes that only a
\* weighted record connects.
C22_Witness ==
    /\ CallOn("find")
    /\ call.w = <<>>
    /\ call.it = end(edges_[call.g])
    /\ \E w \in Weights \ {<<>>} : <<call.a, call.b, w>> \in RecordSet(edges_[call.g])

\* C23: connections(src) raises node-not-found when src is not a node;
\* otherwise it returns, strictly ascending, exactly the destinations d of
\* the stored records src -> d (also after replace_node has renamed a
\* destination).
C23_Connections ==
    [][CalledOn("connections") =>
        LET g == call'.g
            val == call'.val
        IN /\ nodes_' = nodes_
           /\ edges_' = edges_
           /\ IF call'.a \notin NodeSet(nodes_[g])
              THEN call'.ret = "throw"
              ELSE /\ call'.ret = "vector"
                   /\ Range(val) = {t[2] : t \in {u \in RecordSet(edges_[g]) : u[1] = call'.a}}
                   /\ \A i, j \in 1..Len(val) : i < j => val[i] < val[j]]_vars

\* connections(src) has returned two destinations, one of them reached by
\* two records.
C23_Witness ==
    /\ CallOn("connections")
    /\ Len(call.val) = 2
    /\ Cardinality({t \in RecordSet(edges_[call.g]) : t[1] = call.a}) = 3

\* C24: nodes() returns exactly the node values, each once, strictly
\* ascending, whatever calls built the graph; a second call without a
\* mutation in between returns an equal list.
C24_Nodes ==
    [][CalledOn("nodes") =>
        LET g == call'.g
            val == call'.val
        IN /\ nodes_' = nodes_
           /\ edges_' = edges_
           /\ call'.ret = "vector"
           /\ Range(val) = NodeSet(nodes_[g])
           /\ Len(val) = Cardinality(NodeSet(nodes_[g]))
           /\ \A i, j \in 1..Len(val) : i < j => val[i] < val[j]
           /\ nodes(nodes_'[g]) = val]_vars

\* nodes() has returned three values.
C24_Witness ==
    /\ CallOn("nodes")
    /\ Len(call.val) = 3
    /\ call.val[1] < call.val[3]

----------------------------------------------------------------------------
(* C30: the text written by operator<<.                                    *)

\* The elements of a set of values, ascending.
RECURSIVE AscendingValues(_)
AscendingValues(S) ==
    IF S = {} THEN <<>>
    ELSE LET m == CHOOSE x \in S : \A y \in S : x <= y
         IN <<m>> \o AscendingValues(S \ {m})

\* The elements of a set of records, in the order of (from, to, weight).
RECURSIVE AscendingRecords(_)
AscendingRecords(S) ==
    IF S = {} THEN <<>>
    ELSE LET m == CHOOSE x \in S : \A y \in S \ {x} : RecordBefore(x, y)
         IN <<m>> \o AscendingRecords(S \ {m})

\* The line of one record.
RecordLine(t) ==
    "  " \o ToString(t[1]) \o " -> " \o ToString(t[2])
         \o (IF t[3] = <<>> THEN " | U" ELSE " | W | " \o ToString(t[3][1])) \o "\n"

RECURSIVE Concat(_)
Concat(strs) == IF strs = <<>> THEN "" ELSE Head(strs) \o Concat(Tail(strs))

\* The block of one node: its header, the lines of the records it is the
\* source of, the closing line.
NodeBlock(v, R) ==
    LET own == AscendingRecords({t \in R : t[1] = v})
    IN ToString(v) \o " (\n" \o Concat([i \in 1..Len(own) |-> RecordLine(own[i])]) \o ")\n"

\* The text of a graph with node values V and records R.
RenderedText(V, R) ==
    LET vs == AscendingValues(V)
    IN "\n" \o Concat([i \in 1..Len(vs) |-> NodeBlock(vs[i], R)])

\* C30: the text of operator<< is a leading newline followed by one block
\* per node in ascending value order; a block lists exactly the stored
\* records whose source is the node, ascending by destination and weight
\* with the unweighted record first (so each record is under exactly one
\* node); a node without outgoing edges has an empty body and an empty
\* graph gives the newline alone.
C30_Rendering ==
    [][CalledOn("operator_out") =>
        LET g == call'.g
        IN /\ nodes_' = nodes_
           /\ edges_' = edges_
           /\ call'.ret = RenderedText(NodeSet(nodes_[g]), RecordSet(edges_[g]))
           /\ nodes_[g] = <<>> => call'.ret = "\n"]_vars

\* operator<< has written a graph of three nodes, one with three outgoing
\* edges and two with none.
C30_Witness ==
    /\ CallOn("operator_out")
    /\ call.ret = "\n1 (\n  1 -> 2 | U\n  1 -> 2 | W | 0\n  1 -> 3 | W | 1\n)\n2 (\n)\n3 (\n)\n"
    /\ RecordSet(edges_[call.g]) = {<<1, 2, <<>>>>, <<1, 2, <<0>>>>, <<1, 3, <<1>>>>}

----------------------------------------------------------------------------
(* C25..C28: equality, copy and move (two graphs).                         *)

\* C25: g1 == g2 is true exactly when the two graphs have the same node
\* values and the same (source, destination, weight) records, whatever
\* calls produced them; g == g holds and == is symmetric.
C25_Equality ==
    [][CalledOn("operator_eq") =>
        LET g == call'.g
            other == call'.a
        IN /\ nodes_' = nodes_
           /\ edges_' = edges_
           /\ call'.ret = Bool(/\ NodeSet(nodes_[g]) = NodeSet(nodes_[other])
                               /\ RecordSet(edges_[g]) = RecordSet(edges_[other]))
           /\ g = other => call'.ret = "true"
           /\ call'.ret = Bool(operator_eq(nodes_[other], edges_[other], nodes_[g], edges_[g]))]_vars

\* g1 == g2 has returned true for two graphs that store an edge and whose
\* node objects are different objects.
C25_Witness ==
    /\ CallOn("operator_eq")
    /\ call.g # call.a
    /\ call.ret = "true"
    /\ edges_[call.g] # <<>>
    /\ Range(nodes_[call.g]) \cap Range(nodes_[call.a]) = {}

\* C27: right after copy construction or copy assignment the target equals
\* the source (same node values, same records) whatever it held before, the
\* source is unchanged, and copy-assigning a graph to itself leaves it
\* unchanged.
C27_CopyFidelity ==
    [][(CalledOn("copy_construct") \/ CalledOn("copy_assign")) =>
        LET g == call'.g
            other == call'.a
        IN /\ operator_eq(nodes_'[g], edges_'[g], nodes_'[other], edges_'[other])
           /\ NodeSet(nodes_'[g]) = NodeSet(nodes_[other])
           /\ RecordSet(edges_'[g]) = RecordSet(edges_[other])
           /\ EdgeSet(edges_'[g]) = EdgeSet(edges_[other])
           /\ nodes_'[other] = nodes_[other]
           /\ edges_'[other] = edges_[other]
           /\ g = other => (nodes_' = nodes_ /\ edges_' = edges_)]_vars

\* A graph has been copy-assigned from the other one, which stores an edge.
C27_Witness ==
    /\ CallOn("copy_assign")
    /\ call.g # call.a
    /\ edges_[call.a] # <<>>
    /\ Records(edges_[call.g]) = Records(edges_[call.a])

\* C28: after move construction or move assignment from g1 into g2, g2
\* holds exactly the nodes and edges g1 had (it equals a copy taken before
\* the move) and g1 has no nodes and no edges; move-assigning a graph to
\* itself leaves it unchanged.
C28_Move ==
    [][(CalledOn("move_construct") \/ CalledOn("move_assign")) =>
        LET g == call'.g
            other == call'.a
        IN IF g = other
           THEN nodes_' = nodes_ /\ edges_' = edges_
           ELSE /\ nodes_'[g] = nodes_[other]
                /\ edges_'[g] = edges_[other]
                /\ operator_eq(nodes_'[g], edges_'[g], nodes_[other], edges_[other])
                /\ nodes_'[other] = <<>>
                /\ edges_'[other] = <<>>
                /\ empty(nodes_'[other])]_vars

\* A graph has been move-assigned from the other one, and now stores an
\* edge while the other one is empty.
C28_Witness ==
    /\ CallOn("move_assign")
    /\ call.g # call.a
    /\ edges_[call.g] # <<>>
    /\ nodes_[call.a] = <<>>
    /\ edges_[call.a] = <<>>

----------------------------------------------------------------------------
(* C26, C29: independence of a copy and of a returned value.               *)

\* The calls that modify the graph they are called on.
Modifiers ==
    {"insert_node", "insert_edge", "replace_node", "merge_replace_node",
     "erase_node", "erase_edge", "erase_edge_it", "erase_edge_range", "clear"}

\* C26: a modifying call on one graph (insert_node, insert_edge,
\* replace_node, merge_replace_node, erase_node, any erase_edge, clear)
\* leaves the other graph's nodes, edges, rendered text and equality results
\* unchanged, in particular when one was copy-constructed or copy-assigned
\* from the other.
C26_CopyIndependence ==
    [][call'.op \in Modifiers =>
        \A h \in Graphs \ {call'.g} :
            /\ nodes_'[h] = nodes_[h]
            /\ edges_'[h] = edges_[h]
            /\ Records(edges_'[h]) = Records(edges_[h])
            /\ operator_out(nodes_'[h], edges_'[h]) = operator_out(nodes_[h], edges_[h])
            /\ operator_eq(nodes_'[h], edges_'[h], nodes_[h], edges_[h])]_vars

\* replace_node has renamed a node of one graph and rewritten its edge,
\* and the other graph holds the node and the edge under the old value.
C26_Witness ==
    /\ CallOn("replace_node")
    /\ call.ret = "true"
    /\ \E h \in Graphs \ {call.g} :
          /\ edges_[h] # <<>>
          /\ call.a \in NodeSet(nodes_[h])
          /\ \E t \in RecordSet(edges_[h]) : t[1] = call.a \/ t[2] = call.a
          /\ RecordSet(edges_[call.g]) = {Rename(t, call.a, call.b) : t \in RecordSet(edges_[h])}
          /\ NodeSet(nodes_[call.g]) = (NodeSet(nodes_[h]) \ {call.a}) \cup {call.b}

\* C29: a list returned by nodes(), a list of records returned by
\* edges(src, dst) and a value obtained by dereferencing an iterator keep
\* the values they had when obtained through every later call on the
\* graph, clear() and a replace_node / merge_replace_node that rewrites the
\* copied edges included.
C29_SnapshotIndependence ==
    [][call'.op # "none" => snap' = snap]_vars

\* The caller holds the records edges(src, dst) returned, and replace_node
\* has since renamed src in the graph: the stored record is the renamed one.
C29_Witness ==
    /\ snap.op = "edges"
    /\ snap.val # <<>>
    /\ CallOn("replace_node")
    /\ call.ret = "true"
    /\ snap.val[1].src_ = call.a
    /\ <<snap.val[1].src_, snap.val[1].dst_, snap.val[1].weight_>> \notin RecordSet(edges_[1])
    /\ Rename(<<snap.val[1].src_, snap.val[1].dst_, snap.val[1].weight_>>, call.a, call.b)
          \in RecordSet(edges_[1])


----------------------------------------------------------------------------
\* C31: os << g leaves the graph as it was, writing it again gives the same
\* text, and a graph with the same node set and the same record set,
\* however it was built, is written as the same text.
C31_RenderingDeterminism ==
    [][CalledOn("operator_out") =>
          LET g == call'.g
          IN /\ nodes_' = nodes_
             /\ edges_' = edges_
             /\ operator_out(nodes_'[g], edges_'[g]) = call'.ret
             /\ \A h \in Graphs :
                   (/\ NodeSet(nodes_[h]) = NodeSet(nodes_[g])
                    /\ RecordSet(edges_[h]) = RecordSet(edges_[g]))
                   => operator_out(nodes_[h], edges_[h]) = call'.ret]_vars

\* Two graphs with the same two nodes and the same edge, whose nodes are
\* different objects, have been written.
C31_Witness ==
    /\ CallOn("operator_out")
    /\ Len(nodes_[1]) = 2
    /\ Len(edges_[1]) >= 1
    /\ NodeSet(nodes_[1]) = NodeSet(nodes_[2])
    /\ RecordSet(edges_[1]) = RecordSet(edges_[2])
    /\ nodes_[1] # nodes_[2]

----------------------------------------------------------------------------
\* The node values a call names as nodes that are to exist already
\* (insert_node's value and replace_node's new value are to be created).
NamedNodes(c) ==
    IF c.op \in {"insert_edge", "merge_replace_node", "erase_edge", "is_connected",
                 "edges", "find"}
    THEN {c.a, c.b}
    ELSE IF c.op \in {"replace_node", "connections", "erase_node"} THEN {c.a}
    ELSE {}

\* The call just made names a value that was not a node.
MissingNode == ~(NamedNodes(call') \subseteq NodeSet(nodes_[1]))

\* The call just made names an edge by value, both endpoints were nodes and
\* the edge was not stored.
MissingEdge ==
    /\ call'.op \in {"erase_edge", "find"}
    /\ {call'.a, call'.b} \subseteq NodeSet(nodes_[1])
    /\ <<call'.a, call'.b, call'.w>> \notin EdgeSet(edges_[1])

----------------------------------------------------------------------------
\* insert_node of each value of elems in turn on the node set ns.
RECURSIVE InsertEach(_, _, _)
InsertEach(ns, elems, live) ==
    IF elems = <<>> THEN ns
    ELSE InsertEach(insert_node(ns, <<>>, Head(elems), live \cup Range(ns)).nodes,
                    Tail(elems), live)

\* C33: a graph constructed from a listing or a range of values has no
\* edges, one node for each distinct value of the sequence and no other,
\* and is the graph that insert_node of each value in turn builds from the
\* empty graph; the empty sequence gives the empty graph.
C33_ConstructFromValues ==
    [][(CalledOn("graph_list") \/ CalledOn("graph_range")) =>
          LET g == call'.g
              elems == call'.val
              live == LivePtrs([nodes_ EXCEPT ![g] = <<>>], [edges_ EXCEPT ![g] = <<>>])
          IN /\ edges_'[g] = <<>>
             /\ NodeSet(nodes_'[g]) = Range(elems)
             /\ Len(nodes_'[g]) = Cardinality(Range(elems))
             /\ nodes_'[g] = InsertEach(<<>>, elems, live)
             /\ elems = <<>> => empty(nodes_'[g])]_vars

\* A graph has been constructed from a sequence in which a value is
\* repeated and the values are not in ascending order.
C33_Witness ==
    /\ CallOn("graph_range")
    /\ Len(call.val) = 3
    /\ call.val[1] = call.val[3]
    /\ call.val[2] < call.val[1]
    /\ Len(nodes_[1]) = 2

----------------------------------------------------------------------------
\* The values met by stepping an iterator of es from position i with ++
\* until it equals end(), and by stepping from position i with -- until
\* it equals begin() (the value is read after each --); fuel bounds the
\* number of steps.
RECURSIVE Forward(_, _, _)
Forward(es, i, fuel) ==
    IF fuel = 0 \/ iter_operator_eq(set_it_(1, es, i), set_it_(1, es, end(es))) THEN <<>>
    ELSE <<iter_deref(es, i)>> \o Forward(es, operator_pre_inc(i).it, fuel - 1)

RECURSIVE Backward(_, _, _)
Backward(es, i, fuel) ==
    IF fuel = 0 \/ iter_operator_eq(set_it_(1, es, i), set_it_(1, es, begin(es))) THEN <<>>
    ELSE LET j == operator_pre_dec(i).it
         IN <<iter_deref(es, j)>> \o Backward(es, j, fuel - 1)

Reverse(q) == [i \in 1..Len(q) |-> q[Len(q) + 1 - i]]

\* C34: with n edges stored, ++ from begin() reaches end() after exactly n
\* steps and meets every record once, in the stored order; -- from end()
\* meets the same records in the reverse order; ++ then -- and -- then ++
\* come back to an equal iterator; it++ and it-- return the position held
\* before the step; begin() == end() exactly when no edge is stored.
C34_IteratorTraversal ==
    LET es == edges_[1]
        n == Len(es)
        At(i) == set_it_(1, es, i)
        fwd == Forward(es, begin(es), n + 2)
    IN /\ Len(fwd) = n
       /\ \A k \in 1..n :
             fwd[k] = [from |-> Records(es)[k][1], to |-> Records(es)[k][2],
                       weight |-> Records(es)[k][3]]
       /\ Cardinality({<<fwd[k].from, fwd[k].to, fwd[k].weight>> : k \in 1..n}) = n
       /\ Backward(es, end(es), n + 2) = Reverse(fwd)
       /\ \A i \in 1..n :
             /\ iter_operator_eq(At(operator_pre_dec(operator_pre_inc(i).it).it), At(i))
             /\ iter_operator_eq(At(operator_post_inc(i).ret), At(i))
             /\ iter_operator_eq(At(operator_post_inc(i).it), At(operator_pre_inc(i).it))
             /\ ~iter_operator_eq(At(operator_pre_inc(i).it), At(i))
             /\ iter_operator_eq(At(operator_pre_inc(i).ret), At(operator_pre_inc(i).it))
       /\ \A i \in 2..(n + 1) :
             /\ iter_operator_eq(At(operator_pre_inc(operator_pre_dec(i).it).it), At(i))
             /\ iter_operator_eq(At(operator_post_dec(i).ret), At(i))
             /\ iter_operator_eq(At(operator_post_dec(i).it), At(operator_pre_dec(i).it))
             /\ ~iter_operator_eq(At(operator_pre_dec(i).it), At(i))
             /\ iter_operator_eq(At(operator_pre_dec(i).ret), At(operator_pre_dec(i).it))
       /\ iter_operator_eq(At(begin(es)), At(end(es))) <=> n = 0
       /\ call.op \in IterOps =>
             /\ call.it \in begin(es)..end(es)
             /\ call.op = "operator_post_inc" =>
                   call.b = call.a /\ call.it = operator_pre_inc(call.a).it
             /\ call.op = "operator_post_dec" =>
                   call.b = call.a /\ call.it = operator_pre_dec(call.a).it
             /\ call.op = "iter_operator_eq" => (call.ret = "true" <=> call.it = call.b)

\* The caller's iterator has been stepped by it++ onto end() of a graph
\* of three edges.
C34_Witness ==
    /\ CallOn("operator_post_inc")
    /\ Len(edges_[1]) = 3
    /\ call.it = end(edges_[1])
    /\ call.b = 3

----------------------------------------------------------------------------
\* C35: in every state the endpoint values inside a stored edge record
\* (what print_edge, get_nodes, *it, find and operator== read) are the
\* values of the source and destination nodes the record is keyed by (what
\* the ordering, is_connected, edges, connections and erase_edge read),
\* also where replace_node or merge_replace_node has renamed the source,
\* the destination or both.
C35_RecordMatchesKey ==
    /\ \A i \in 1..Len(edges_[1]) :
          LET e == edges_[1][i]
          IN /\ get_nodes(e.edge) = <<e.src.val, e.dst.val>>
             /\ iter_deref(edges_[1], i).from = e.src.val
             /\ iter_deref(edges_[1], i).to = e.dst.val
    /\ RecordSet(edges_[1]) = EdgeSet(edges_[1])

\* replace_node has renamed a node that was the source of one edge, the
\* destination of another and both ends of a third.
C35_Witness ==
    /\ CallOn("replace_node")
    /\ call.ret = "true"
    /\ call.a # call.b
    /\ \E c \in Values \ {call.a, call.b} :
          {<<call.b, c>>, <<c, call.b>>, <<call.b, call.b>>}
             = {<<edges_[1][i].edge.src_, edges_[1][i].edge.dst_>> : i \in 1..Len(edges_[1])}

----------------------------------------------------------------------------
\* C36: between two calls, for all nodes s and d of the graph and every
\* weight option w: is_connected(s, d) is true iff edges(s, d) is not
\* empty iff d is in connections(s) iff find(s, d, w2) is not end() for
\* some w2; and find(s, d, w) is not end() iff insert_edge(s, d, w) would
\* return false iff erase_edge(s, d, w) would return true.
C36_QueryAgreement ==
    call = NoCall =>
       LET ns == nodes_[1]
           es == edges_[1]
       IN \A s \in NodeSet(ns), d \in NodeSet(ns) :
             LET connected == is_connected(ns, es, s, d).ret = "true"
             IN /\ is_connected(ns, es, s, d).ret \in {"true", "false"}
                /\ connected <=> edges(ns, es, s, d).val # <<>>
                /\ connected <=> d \in Range(connections(ns, es, s).val)
                /\ connected <=> \E w2 \in Weights : find(es, s, d, w2) # end(es)
                /\ \A w \in Weights :
                      LET found == find(es, s, d, w) # end(es)
                      IN /\ found <=> insert_edge(ns, es, s, d, w).ret = "false"
                         /\ ~found <=> insert_edge(ns, es, s, d, w).ret = "true"
                         /\ found <=> erase_edge(ns, es, s, d, w).ret = "true"
                         /\ ~found <=> erase_edge(ns, es, s, d, w).ret = "false"

\* Between two calls, a graph with two edges of different weight options
\* from one node to another, and no edge back.
C36_Witness ==
    /\ call = NoCall
    /\ \E s \in NodeSet(nodes_[1]), d \in NodeSet(nodes_[1]) :
          /\ s # d
          /\ Cardinality({t \in EdgeSet(edges_[1]) : t[1] = s /\ t[2] = d}) = 2
          /\ {t \in EdgeSet(edges_[1]) : t[1] = d /\ t[2] = s} = {}

----------------------------------------------------------------------------
\* The values met by walking es from begin() to end().
Walk(es) == [i \in 1..Len(es) |-> iter_deref(es, i)]

\* C37: when replace_node(a, b) has renamed a present node a to an absent
\* value b, replace_node(b, a) returns true as well and gives a graph
\* equal to the one before the two calls: operator== holds, the rendering
\* is the same and begin()..end() yields the same sequence.
C37_RenameRoundTrip ==
    [][(/\ CalledOn("replace_node")
        /\ call'.ret = "true"
        /\ call'.a # call'.b) =>
          LET back == replace_node(nodes_'[1], edges_'[1], call'.b, call'.a, Live')
          IN /\ call'.a \in NodeSet(nodes_[1])
             /\ call'.b \notin NodeSet(nodes_[1])
             /\ back.ret = "true"
             /\ operator_eq(back.nodes, back.edges, nodes_[1], edges_[1])
             /\ operator_eq(nodes_[1], edges_[1], back.nodes, back.edges)
             /\ operator_out(back.nodes, back.edges) = operator_out(nodes_[1], edges_[1])
             /\ Walk(back.edges) = Walk(edges_[1])]_vars

\* replace_node has renamed a node that has a self-loop and two edges of
\* different weight options to another node, and the rename has taken it
\* to the other side of that node in the order of values.
C37_Witness ==
    /\ CallOn("replace_node")
    /\ call.ret = "true"
    /\ call.a # call.b
    /\ Len(nodes_[1]) = 2
    /\ <<call.b, call.b>> \in {<<t[1], t[2]>> : t \in RecordSet(edges_[1])}
    /\ \E c \in NodeSet(nodes_[1]) \ {call.b} :
          /\ Cardinality({t \in RecordSet(edges_[1]) : t[1] = call.b /\ t[2] = c}) = 2
          /\ (call.a < c) # (call.b < c)

----------------------------------------------------------------------------
\* C38: an iterator taken at position k of g1 before g1 is moved into g2
\* (by construction or by assignment) equals the iterator at position k
\* of g2 afterwards, dereferences to the same value, and can be stepped to
\* g2.end() and back to g2.begin(); after a copy of a graph g1 that stores
\* an edge, g2.begin() and g1.begin() are not equal, although they
\* dereference to equal values and the graphs store as many edges.
C38_IteratorsFollowStorage ==
    [][/\ (call'.op \in {"move_construct", "move_assign"} /\ call'.g # call'.a) =>
             LET g1 == call'.a
                 g2 == call'.g
                 before == edges_[g1]
                 after == edges_'[g2]
                 n == Len(before)
             IN /\ Len(after) = n
                /\ \A k \in 1..n :
                      LET it_1 == set_it_(g1, before, k)
                      IN /\ iter_operator_eq(it_1, set_it_(g2, after, k))
                         /\ \A j \in (1..(n + 1)) \ {k} :
                               ~iter_operator_eq(it_1, set_it_(g2, after, j))
                         /\ iter_deref(after, k) = iter_deref(before, k)
                         /\ Len(Forward(after, k, n + 2)) = n + 1 - k
                         /\ Len(Backward(after, k, n + 2)) = k - 1
       /\ (/\ call'.op \in {"copy_construct", "copy_assign"}
           /\ call'.g # call'.a
           /\ edges_'[call'.a] # <<>>) =>
             LET g1 == call'.a
                 g2 == call'.g
             IN /\ ~iter_operator_eq(set_it_(g2, edges_'[g2], begin(edges_'[g2])),
                                     set_it_(g1, edges_'[g1], begin(edges_'[g1])))
                /\ iter_deref(edges_'[g2], begin(edges_'[g2]))
                      = iter_deref(edges_'[g1], begin(edges_'[g1]))
                /\ end(edges_'[g2]) - begin(edges_'[g2])
                      = end(edges_'[g1]) - begin(edges_'[g1])]_vars

\* A graph of two edges has been move-constructed from the other graph.
C38_Witness ==
    /\ CallOn("move_construct")
    /\ Len(edges_[call.g]) = 2
    /\ edges_[call.a] = <<>>

----------------------------------------------------------------------------
\* The order of two tuples by the values of their endpoints and then by
\* edge_comp.
LessByValue(lhs, rhs) ==
    IF lhs.src.val # rhs.src.val THEN lhs.src.val < rhs.src.val
    ELSE IF lhs.dst.val # rhs.dst.val THEN lhs.dst.val < rhs.dst.val
    ELSE edge_comp(lhs.edge, rhs.edge) = "less"

\* C39: between two calls, and when replace_node, merge_replace_node or a
\* copy has just completed, each endpoint pointer of a stored edge is the very
\* node object that the node set of the same graph holds for that value,
\* no node object is held by two graphs, and so compare_edges_set, which
\* tests the endpoint pointers for identity, orders the stored tuples as
\* the comparison of the endpoint values does.
C39_NodeReferenceIdentity ==
    call.op \in {"none", "replace_node", "merge_replace_node", "copy_construct",
                 "copy_assign"} =>
       /\ \A g \in Graphs : \A i \in 1..Len(edges_[g]) :
             LET e == edges_[g][i]
             IN /\ e.src \in Range(nodes_[g])
                /\ e.dst \in Range(nodes_[g])
                /\ e.src = find_node_ptr(nodes_[g], e.src.val)
                /\ e.dst = find_node_ptr(nodes_[g], e.dst.val)
                /\ \A j \in 1..Len(edges_[g]) :
                      LET f == edges_[g][j]
                      IN /\ (e.src = f.src) <=> (e.src.val = f.src.val)
                         /\ (e.dst = f.dst) <=> (e.dst.val = f.dst.val)
                         /\ (e.src = f.dst) <=> (e.src.val = f.dst.val)
                         /\ compare_edges_set(e, f) <=> LessByValue(e, f)
       /\ \A g \in Graphs, h \in Graphs :
             g # h => Range(nodes_[g]) \cap Range(nodes_[h]) = {}
       /\ \A g \in Graphs : \A i \in 1..Len(nodes_[g]), j \in 1..Len(nodes_[g]) :
             nodes_[g][i].val = nodes_[g][j].val => i = j

\* replace_node has renamed the source of a stored edge to a value for
\* which the other graph, which stores an edge too, holds a node object of
\* its own.
C39_Witness ==
    /\ CallOn("replace_node")
    /\ call.ret = "true"
    /\ call.a # call.b
    /\ \E i \in 1..Len(edges_[call.g]) : edges_[call.g][i].src.val = call.b
    /\ \E h \in Graphs \ {call.g} :
          /\ call.b \in NodeSet(nodes_[h])
          /\ edges_[h] # <<>>

============================================================================
